---- MODULE Spec2Model ----
(***************************************************************************)
(* emcee: an MCP server over a line-framed JSON-RPC stdio transport that   *)
(* exposes the operations of an OpenAPI document as tools.                 *)
(*                                                                         *)
(* Two parts are modelled:                                                 *)
(*   - the protocol router of mcp/server.go (HandleRequest, handleMethod,  *)
(*     handleInitialize, handleToolsList, handleToolsCall, handlePing,     *)
(*     getToolName, findOperationByToolName) as operators over an          *)
(*     immutable server value, exercised by the specification RouterSpec;  *)
(*   - Transport.Run of mcp/transport.go (reader, handler and writer       *)
(*     goroutines over two unbuffered channels under an errgroup context)  *)
(*     as the specification Spec, and FairSpec with the fairness the Go    *)
(*     scheduler gives to runnable goroutines.                             *)
(* CallSpec exercises the binding of tools/call arguments to the outbound  *)
(* HTTP request, SessionSpec sequences of requests on one server, and      *)
(* ShapeSpec Transport.Run on lines that are JSON but not requests, and    *)
(* ConstructSpec NewServer and the HTTP client its servers send through.   *)
(* OverrideSpec lists and calls a tool whose parameter is declared on the  *)
(* path item and on the operation.                                         *)
(* BraceSpec is the reader of the revision of Transport.Run that frames    *)
(* its input by counting braces.                                           *)
(***************************************************************************)
EXTENDS Integers, Sequences, FiniteSets, TLC

VARIABLES
    server,      \* the *Server handed to Transport.Run as handler
    input,       \* the bytes that stdin will deliver
    rpos,        \* number of input bytes consumed by the reader
    line,        \* reader goroutine: the line being accumulated
    pc,          \* position of each goroutine
    ret,         \* outcome of each goroutine: "-", "nil" or "err"
    signalled,   \* the SIGINT/SIGTERM context of main has fired
    hline,       \* handler goroutine: the line received from lines
    hresp,       \* handler goroutine: the response being sent
    closed,      \* the responses channel has been closed
    buf,         \* writer goroutine: bytes of the response still to write
    out,         \* bytes accepted by stdout
    handled,     \* history: the lines the handler goroutine has processed
    wline,       \* history: the line whose response the writer holds
    written,     \* history: the lines whose response has reached stdout
    wfail,       \* history: how a write to stdout failed ("" while none has)
    lastReq,     \* RouterSpec: the last request given to HandleRequest
    lastResp,    \* RouterSpec: the response it returned
    lastHttp,    \* RouterSpec: what the HTTP client returned for it
    lastCall,    \* the HTTP request the last tools/call handed to client.Do
    history,     \* history: the methods of the requests served so far
    firstList,   \* history: the result of the first tools/list served
    fresh,       \* history: the server as NewServer returned it
    taken,       \* history: number of responses the writer has received
    client,      \* ConstructSpec: the Transport of the http.Client shared
                 \* by the callers of NewServer
    opts,        \* ConstructSpec: the options of the last NewServer call
    built,       \* ConstructSpec: what each NewServer call returned
    wire,        \* ConstructSpec: the last request the base RoundTripper got
    braceCount   \* BraceSpec: the reader's balance of curly braces

vars == <<server, input, rpos, line, pc, ret, signalled, hline, hresp,
          closed, buf, out, handled, wline, written, wfail, lastReq,
          lastResp, lastHttp, lastCall, history, firstList, fresh, taken,
          client, opts, built, wire, braceCount>>

tvars == <<input, rpos, line, pc, ret, signalled, hline, hresp,
           closed, buf, out, handled, wline, written, wfail, taken>>

rvars == <<lastReq, lastResp, lastHttp, lastCall, history, firstList,
           fresh, client, opts, built, wire, braceCount>>

(***************************************************************************)
(* Bounds of the model.                                                    *)
(***************************************************************************)
MaxInput == 4    \* length of the stdin byte stream
MaxOps == 2      \* operations declared by one OpenAPI document
MaxFairInput == 4 \* length of the stdin byte stream under FairSpec
MaxArray == 2    \* elements of an array argument
MaxRequests == 3 \* requests served in one session
MaxShapeInput == 3 \* length of the stdin byte stream under ShapeSpec

(***************************************************************************)
(* jsonrpc: ids, errors, responses.                                        *)
(***************************************************************************)
Version == "2.0"
ProtocolVersion == "2024-11-05"

ErrParse == -32700
ErrInvalidRequest == -32600
ErrMethodNotFound == -32601
ErrInvalidParams == -32602
ErrInternal == -32603
ErrServer == -32000

\* An ID holds nil, a string or an int; val is the text of the value.
NilID == [kind |-> "nil", val |-> ""]

\* JSON values that can stand in the "id" member of a line.
AbsentJSON == [json |-> "absent", text |-> ""]
NullJSON == [json |-> "null", text |-> "null"]

NewID(id) ==
    IF id.kind \in {"str", "int"} THEN id ELSE NilID

\* ID.UnmarshalJSON: a string is kept, a number becomes an int, null and
\* every other JSON type is an error.
IDUnmarshalOK(j) == j.json \in {"string", "number"}

IDUnmarshalJSON(j) ==
    CASE j.json = "string" -> [kind |-> "str", val |-> j.text]
      [] j.json = "number" -> [kind |-> "int", val |-> j.text]
      [] OTHER -> NilID

\* ID.MarshalJSON: a nil value is written as the number 0.
IDMarshalJSON(id) ==
    CASE id.kind = "nil" -> [json |-> "number", text |-> "0"]
      [] id.kind = "str" -> [json |-> "string", text |-> id.val]
      [] OTHER -> [json |-> "number", text |-> id.val]

errorDetails(code) ==
    CASE code = ErrParse -> "Parse error"
      [] code = ErrInvalidRequest -> "Invalid Request"
      [] code = ErrMethodNotFound -> "Method not found"
      [] code = ErrInvalidParams -> "Invalid params"
      [] code = ErrInternal -> "Internal error"
      [] code = ErrServer -> "Server error"
      [] OTHER -> IF code >= -32099 /\ code <= -32000
                  THEN "Server error" ELSE "Unknown error"

\* Data carried by an Error: nothing, a Go error value, or a text Content.
NoData == [type |-> "nil", text |-> ""]
ErrData(msg) == [type |-> "error", text |-> msg]

NilError == [isNil |-> TRUE, code |-> 0, message |-> "", data |-> NoData]

NewError(code, data) ==
    [isNil |-> FALSE, code |-> code, message |-> errorDetails(code),
     data |-> data]

NoResult == [kind |-> "nil"]

NewResponse(id, result, err) ==
    [Version |-> Version, ID |-> NewID(id), Result |-> result, Error |-> err]

\* json.Marshal(Response): result and error are omitted when empty, the id
\* is written by ID.MarshalJSON.
MarshalResponse(r) ==
    [jsonrpc |-> r.Version, result |-> r.Result, error |-> r.Error,
     id |-> IDMarshalJSON(r.ID)]

(***************************************************************************)
(* The OpenAPI model held by the server.  A document is the ordered list   *)
(* of its path items; a path item has one optional operation per method.   *)
(***************************************************************************)
Methods == <<"GET", "POST", "PUT", "DELETE", "PATCH">>
Paths == <<"/pets", "/pets/{petId}">>

MaxToolName == 64
PrefixLen == 55
HashLen == 8

Long65 == "aaaaaaaaaaaaaaaaaaaaaaaaaaaaaaaaaaaaaaaaaaaaaaaaaaaaaaaaaaaaaaaaa"
Long66 == "aaaaaaaaaaaaaaaaaaaaaaaaaaaaaaaaaaaaaaaaaaaaaaaaaaaaaaaaaaaaaaaaaa"
Short64 == "aaaaaaaaaaaaaaaaaaaaaaaaaaaaaaaaaaaaaaaaaaaaaaaaaaaaaaa_Y1NhxIu5"

\* The operationIds a document may use ("" is an operation without one).
OperationIds == {"", "listPets", Long65, Long66, Short64}

\* base64.RawURLEncoding.EncodeToString(sha256.Sum256(operationId)), for the
\* operationIds above that are longer than MaxToolName.
sha256Base64(operationId) ==
    CASE operationId = Long65 ->
           "Y1NhxIu56rFBmOduqKt_GkFoXWrWKqkUbTAdTxfrCuA"
      [] operationId = Long66 ->
           "rBN_zkmDfHwpRfYWDTwOZ55vQAcIUEIKIrwQ4Gksvcc"

\* Variant: the whole operationId is kept in front of the hash.
getToolName_wholeId(operationId) ==
    IF Len(operationId) <= MaxToolName
    THEN operationId
    ELSE operationId \o "_" \o SubSeq(sha256Base64(operationId), 1, HashLen)

getToolName(operationId) ==
    IF Len(operationId) <= MaxToolName
    THEN operationId
    ELSE SubSeq(operationId, 1, PrefixLen) \o "_"
         \o SubSeq(sha256Base64(operationId), 1, HashLen)

\* operation.RequestBody: Properties are the property names of the schema of
\* its application/json content.
NoRequestBody == [isNil |-> TRUE, Properties |-> <<>>]
RequestBody(properties) == [isNil |-> FALSE, Properties |-> properties]

NilOp == [isNil |-> TRUE, OperationId |-> "", Description |-> "",
          Summary |-> "", Parameters |-> <<>>,
          RequestBody |-> NoRequestBody]
Operation(id) == [isNil |-> FALSE, OperationId |-> id, Description |-> "",
                  Summary |-> "summary", Parameters |-> <<>>,
                  RequestBody |-> NoRequestBody]

Slots == (1..Len(Paths)) \X (1..Len(Methods))

\* Assignments of operationIds to at most MaxOps (path, method) slots in
\* which no non-empty operationId is used twice.
Assignments ==
    UNION {[S -> OperationIds] :
             S \in {T \in SUBSET Slots : Cardinality(T) <= MaxOps}}

UniqueIds(f) ==
    \A a, b \in DOMAIN f : (a # b /\ f[a] # "") => f[a] # f[b]

DocOf(f) ==
    [i \in 1..Len(Paths) |->
       [path |-> Paths[i],
        Parameters |-> <<>>,
        ops |-> [m \in 1..Len(Methods) |->
                   IF <<i, m>> \in DOMAIN f
                   THEN Operation(f[<<i, m>>]) ELSE NilOp]]]

Docs == {DocOf(f) : f \in {g \in Assignments : UniqueIds(g)}}

ServerInfo == [Name |-> "emcee", Version |-> "dev"]

NewServer(doc) ==
    [model |-> doc, baseURL |-> "http://h", info |-> ServerInfo]

Servers == {NewServer(d) : d \in Docs}

\* The (path item, method) pairs in the order both handlers walk them:
\* path items in document order, methods in the order of Methods.
operations(s) ==
    [k \in 1..(Len(s.model) * Len(Methods)) |->
       [item |-> ((k - 1) \div Len(Methods)) + 1,
        method |-> ((k - 1) % Len(Methods)) + 1]]

opAt(s, slot) == s.model[slot.item].ops[slot.method]

(***************************************************************************)
(* tools/list                                                              *)
(***************************************************************************)
\* server.go:698, negated: the operation is projected to a tool.
listed(op) == ~op.isNil /\ op.OperationId # ""

\* inputSchema.Properties: the schema of each property, by its name.
NoProperties == [n \in {} |-> [type |-> "string", description |-> ""]]

\* server.go:733 and 756: Properties[param.Name] = schema
setProperty(properties, name, schema) ==
    [n \in DOMAIN properties \cup {name} |->
       IF n = name THEN schema ELSE properties[n]]

\* One pass of the loop over pathItem.Parameters (server.go:719-737) or
\* over op.Parameters (server.go:742-760): a parameter with a schema becomes
\* the property of its name and, if required, one more entry of Required.
addParameter(inputSchema, param) ==
    IF ~param.Schema THEN inputSchema
    ELSE [Type |-> inputSchema.Type,
          Properties |-> setProperty(inputSchema.Properties, param.Name,
                                     [type |-> "string",
                                      description |-> param.Description]),
          Required |-> IF param.Required
                       THEN Append(inputSchema.Required, param.Name)
                       ELSE inputSchema.Required]

RECURSIVE addParameters(_, _)
addParameters(inputSchema, params) ==
    IF params = <<>> THEN inputSchema
    ELSE addParameters(addParameter(inputSchema, params[1]), Tail(params))

\* server.go:765-789: the properties of the body are properties of the tool.
RECURSIVE addBody(_, _)
addBody(inputSchema, properties) ==
    IF properties = <<>> THEN inputSchema
    ELSE addBody([inputSchema EXCEPT !.Properties =
                    setProperty(@, properties[1],
                                [type |-> "string", description |-> ""])],
                 Tail(properties))

\* server.go:711-806: the tool of the operation op of pathItem.
createTool(pathItem, op) ==
    [Name |-> getToolName(op.OperationId),
     Description |-> IF op.Description = "" THEN op.Summary
                     ELSE op.Description,
     InputSchema |->
       addBody(addParameters(
                 addParameters([Type |-> "object",
                                Properties |-> NoProperties,
                                Required |-> <<>>],
                               pathItem.Parameters),
                 op.Parameters),
               op.RequestBody.Properties)]

handleToolsList(s) ==
    LET sel == SelectSeq(operations(s), LAMBDA sl : listed(opAt(s, sl)))
    IN [kind |-> "tools/list",
        Tools |-> [k \in 1..Len(sel) |->
                    createTool(s.model[sel[k].item], opAt(s, sel[k]))]]

(***************************************************************************)
(* tools/call                                                              *)
(***************************************************************************)
\* Variant: the operation is looked up by its operationId, not its tool name.
candidate_byOperationId(op, toolName) ==
    /\ ~op.isNil
    /\ op.OperationId # ""
    /\ op.OperationId = toolName

\* Variant: the lookup does not skip operations without an operationId.
candidate_anyOperationId(op, toolName) ==
    /\ ~op.isNil
    /\ getToolName(op.OperationId) = toolName

\* server.go:1101-1102: the operation answers to toolName.
candidate(op, toolName) ==
    /\ ~op.isNil
    /\ op.OperationId # ""
    /\ getToolName(op.OperationId) = toolName

NotFound == [found |-> FALSE, method |-> "", path |-> "", slot |-> <<>>]

findOperationByToolName(s, toolName) ==
    LET sel == SelectSeq(operations(s),
                         LAMBDA sl : candidate(opAt(s, sl), toolName))
    IN IF sel = <<>>
       THEN NotFound
       ELSE [found |-> TRUE,
             method |-> Methods[sel[1].method],
             path |-> s.model[sel[1].item].path,
             slot |-> <<sel[1]>>]

\* strings.HasPrefix and strings.Contains
HasPrefix(str, prefix) ==
    /\ Len(str) >= Len(prefix)
    /\ SubSeq(str, 1, Len(prefix)) = prefix

Contains(str, substr) ==
    \E i \in 1..(Len(str) - Len(substr) + 1) :
        SubSeq(str, i, i + Len(substr) - 1) = substr

(***************************************************************************)
(* tools/call: the values of request.Arguments and their text               *)
(***************************************************************************)
\* A value of request.Arguments as json.Unmarshal leaves it in an
\* interface{}: a string, a float64 (here a natural number) or a
\* []interface{} of strings and numbers.
Str(x) == [t |-> "string", s |-> x, n |-> 0]
Num(k) == [t |-> "number", s |-> "", n |-> k]
Arr(elems) == [t |-> "array", a |-> elems]

NoArgs == [k \in {} |-> Str("")]

Char(str, i) == SubSeq(str, i, i)

RECURSIVE Join(_, _)
\* strings.Join
Join(strs, sep) ==
    IF strs = <<>> THEN ""
    ELSE IF Len(strs) = 1 THEN strs[1]
    ELSE strs[1] \o sep \o Join(Tail(strs), sep)

RECURSIVE trimZeros(_)
\* The decimal digits without their trailing zeros.
trimZeros(digits) ==
    IF Len(digits) > 1 /\ Char(digits, Len(digits)) = "0"
    THEN trimZeros(SubSeq(digits, 1, Len(digits) - 1))
    ELSE digits

\* fmt.Sprint of a float64 holding the natural number k: format %v is %g
\* with the shortest precision, which switches to exponent notation when
\* the decimal exponent is 6 or more.
formatFloat(k) ==
    LET digits == ToString(k)
        exp == Len(digits) - 1
        m == trimZeros(digits)
    IN IF exp < 6
       THEN digits
       ELSE Char(m, 1)
            \o (IF Len(m) > 1 THEN "." \o SubSeq(m, 2, Len(m)) ELSE "")
            \o "e+" \o (IF exp < 10 THEN "0" ELSE "") \o ToString(exp)

fmtScalar(v) == IF v.t = "number" THEN formatFloat(v.n) ELSE v.s

\* fmt.Sprint(value); a slice prints as its elements between brackets,
\* separated by spaces.
fmtSprint(v) ==
    IF v.t = "array"
    THEN "[" \o Join([i \in 1..Len(v.a) |-> fmtScalar(v.a[i])], " ") \o "]"
    ELSE fmtScalar(v)

(***************************************************************************)
(* tools/call: escaping                                                    *)
(***************************************************************************)
Alnum ==
    {"a", "b", "c", "d", "e", "f", "g", "h", "i", "j", "k", "l", "m", "n",
     "o", "p", "q", "r", "s", "t", "u", "v", "w", "x", "y", "z",
     "A", "B", "C", "D", "E", "F", "G", "H", "I", "J", "K", "L", "M", "N",
     "O", "P", "Q", "R", "S", "T", "U", "V", "W", "X", "Y", "Z",
     "0", "1", "2", "3", "4", "5", "6", "7", "8", "9"}

\* The two hexadecimal digits of a byte of printable ASCII punctuation.
hex(c) ==
    CASE c = " " -> "20" [] c = "!" -> "21" [] c = "#" -> "23"
      [] c = "$" -> "24" [] c = "%" -> "25" [] c = "&" -> "26"
      [] c = "'" -> "27" [] c = "(" -> "28" [] c = ")" -> "29"
      [] c = "*" -> "2A" [] c = "+" -> "2B" [] c = "," -> "2C"
      [] c = "/" -> "2F" [] c = ":" -> "3A" [] c = ";" -> "3B"
      [] c = "<" -> "3C" [] c = "=" -> "3D" [] c = ">" -> "3E"
      [] c = "?" -> "3F" [] c = "@" -> "40" [] c = "[" -> "5B"
      [] c = "]" -> "5D" [] c = "^" -> "5E"
      [] c = "{" -> "7B" [] c = "|" -> "7C" [] c = "}" -> "7D"

\* server.go:1051-1063, negated: the bytes pathSegmentEscape leaves alone.
shouldEscape(c) ==
    ~(\/ c \in Alnum
      \/ c \in {"-", ".", "_", "~"}
      \/ c \in {"!", "$", "&", "'", "(", ")", "*", "+", ",", ";", "=", ":",
                "@"})

RECURSIVE pathSegmentEscape(_)
pathSegmentEscape(str) ==
    IF str = "" THEN ""
    ELSE (IF shouldEscape(Char(str, 1))
          THEN "%" \o hex(Char(str, 1))
          ELSE Char(str, 1))
         \o pathSegmentEscape(SubSeq(str, 2, Len(str)))

\* net/url shouldEscape in mode encodePath, which URL.String applies to
\* u.Path when u.RawPath is empty: '%' is escaped like any other byte.
urlShouldEscapePath(c) ==
    ~(\/ c \in Alnum
      \/ c \in {"-", "_", ".", "~"}
      \/ c \in {"$", "&", "+", ",", "/", ":", ";", "=", "@"})

RECURSIVE urlEscapePath(_)
urlEscapePath(str) ==
    IF str = "" THEN ""
    ELSE (IF urlShouldEscapePath(Char(str, 1))
          THEN "%" \o hex(Char(str, 1))
          ELSE Char(str, 1))
         \o urlEscapePath(SubSeq(str, 2, Len(str)))

RECURSIVE QueryEscape(_)
\* url.QueryEscape, which url.Values.Encode applies to keys and values.
QueryEscape(str) ==
    IF str = "" THEN ""
    ELSE (IF Char(str, 1) \in Alnum \cup {"-", "_", ".", "~"}
          THEN Char(str, 1)
          ELSE IF Char(str, 1) = " " THEN "+"
          ELSE "%" \o hex(Char(str, 1)))
         \o QueryEscape(SubSeq(str, 2, Len(str)))

RECURSIVE ReplaceAll(_, _, _)
\* strings.ReplaceAll, for a non-empty old.
ReplaceAll(str, old, new) ==
    IF Len(str) < Len(old) THEN str
    ELSE IF SubSeq(str, 1, Len(old)) = old
    THEN new \o ReplaceAll(SubSeq(str, Len(old) + 1, Len(str)), old, new)
    ELSE Char(str, 1) \o ReplaceAll(SubSeq(str, 2, Len(str)), old, new)

RECURSIVE collapse(_)
collapse(str) ==
    IF str = "" THEN ""
    ELSE IF Char(str, 1) = "/" /\ (Len(str) = 1 \/ Char(str, 2) = "/")
    THEN collapse(SubSeq(str, 2, Len(str)))
    ELSE Char(str, 1) \o collapse(SubSeq(str, 2, Len(str)))

rooted(p) == IF p = "" THEN "/" ELSE p

\* path.Clean of a rooted path without "." and ".." elements: repeated
\* slashes become one and a trailing slash is dropped.
pathClean(p) == rooted(collapse(p))

\* url.Parse of the base URL of the servers of the model.
urlParse(rawURL) ==
    CASE rawURL = "http://h" -> [Scheme |-> "http", Host |-> "h", Path |-> ""]

\* url.Parse returns an error: ":" has no scheme before its colon.
urlParseFails(rawURL) == rawURL = ":"

Lower == "abcdefghijklmnopqrstuvwxyz"
Upper == "ABCDEFGHIJKLMNOPQRSTUVWXYZ"

toUpper(c) ==
    IF \E i \in 1..Len(Lower) : Char(Lower, i) = c
    THEN Char(Upper, CHOOSE i \in 1..Len(Lower) : Char(Lower, i) = c)
    ELSE c

toLower(c) ==
    IF \E i \in 1..Len(Upper) : Char(Upper, i) = c
    THEN Char(Lower, CHOOSE i \in 1..Len(Upper) : Char(Upper, i) = c)
    ELSE c

RECURSIVE canonicalFrom(_, _)
canonicalFrom(str, upper) ==
    IF str = "" THEN ""
    ELSE (IF upper THEN toUpper(Char(str, 1)) ELSE toLower(Char(str, 1)))
         \o canonicalFrom(SubSeq(str, 2, Len(str)), Char(str, 1) = "-")

\* textproto.CanonicalMIMEHeaderKey, applied by http.Header.Add and Set.
CanonicalMIMEHeaderKey(name) == canonicalFrom(name, TRUE)

(***************************************************************************)
(* tools/call: binding the arguments to the outbound request               *)
(***************************************************************************)
\* url.Values.Set and http.Header.Add / Set on maps held as functions.
NoValues == [k \in {} |-> ""]
NoHeader == [k \in {} |-> <<>>]

ValuesSet(m, key, value) ==
    [k \in DOMAIN m \cup {key} |-> IF k = key THEN value ELSE m[k]]

addAt(h, canonicalKey, value) ==
    [k \in DOMAIN h \cup {canonicalKey} |->
       IF k = canonicalKey
       THEN (IF k \in DOMAIN h THEN Append(h[k], value) ELSE <<value>>)
       ELSE h[k]]

HeaderAdd(h, key, value) == addAt(h, CanonicalMIMEHeaderKey(key), value)

HeaderSet(h, key, value) ==
    ValuesSet(h, CanonicalMIMEHeaderKey(key), <<value>>)

\* The names a parameter or a body property of the model may have, in the
\* byte order in which url.Values.Encode sorts its keys.
ArgNames == <<"fields", "petId">>

\* url.Values.Encode
Encode(m) ==
    LET keys == SelectSeq(ArgNames, LAMBDA k : k \in DOMAIN m)
    IN Join([i \in 1..Len(keys) |->
               QueryEscape(keys[i]) \o "=" \o QueryEscape(m[keys[i]])], "&")

\* The query value of an argument: only the loop over operation.Parameters
\* (server.go:893-903) joins the elements of an array with commas.
queryValue(value, operationLevel) ==
    IF operationLevel /\ value.t = "array"
    THEN Join([i \in 1..Len(value.a) |-> fmtScalar(value.a[i])], ",")
    ELSE fmtSprint(value)

\* The switch on param.In, with text = fmt.Sprint(value).
bindValue(acc, param, text, inQuery) ==
    CASE param.In = "path" ->
           [acc EXCEPT !.Path = ReplaceAll(@, "{" \o param.Name \o "}",
                                           pathSegmentEscape(text))]
      [] param.In = "query" ->
           [acc EXCEPT !.query = ValuesSet(@, param.Name, inQuery)]
      [] param.In = "header" ->
           [acc EXCEPT !.header = HeaderAdd(@, param.Name, text)]
      [] OTHER -> acc

\* One pass of the loop over pathItem.Parameters (server.go:863-878,
\* operationLevel = FALSE) or operation.Parameters (server.go:883-909,
\* operationLevel = TRUE).
bindParameter(acc, param, arguments, operationLevel) ==
    IF param.Name \notin DOMAIN arguments THEN acc
    ELSE bindValue(acc, param, fmtSprint(arguments[param.Name]),
                   queryValue(arguments[param.Name], operationLevel))

RECURSIVE bindParameters(_, _, _, _)
bindParameters(acc, params, arguments, operationLevel) ==
    IF params = <<>> THEN acc
    ELSE bindParameters(
           bindParameter(acc, params[1], arguments, operationLevel),
           Tail(params), arguments, operationLevel)

\* Variant: every supplied argument goes into the body.
bodyParams_allArguments(operation, arguments) ==
    IF operation.RequestBody.isNil THEN NoArgs
    ELSE arguments

\* server.go:913-928: the supplied arguments that are properties of the
\* schema of the request body.
bodyParams(operation, arguments) ==
    IF operation.RequestBody.isNil THEN NoArgs
    ELSE [k \in {operation.RequestBody.Properties[i] :
                   i \in 1..Len(operation.RequestBody.Properties)}
                \cap DOMAIN arguments |-> arguments[k]]

\* The body of the outbound request: absent, or the JSON object that
\* json.Marshal writes for bodyParams.
NoBody == [present |-> FALSE, object |-> NoArgs]
jsonBody(params) == [present |-> TRUE, object |-> params]

\* URL.String for a URL with scheme, host, path and query.
urlString(u) ==
    u.Scheme \o "://" \o u.Host \o urlEscapePath(u.Path)
    \o (IF u.RawQuery # "" THEN "?" \o u.RawQuery ELSE "")

NoCall == [made |-> FALSE, method |-> "", url |-> "", header |-> NoHeader,
           body |-> NoBody]

\* server.go:930-959: the request made of the method, the URL, the bound
\* path, query and headers, and the body parameters.
assemble(method, baseURL, bound, body) ==
    [made |-> TRUE,
     method |-> method,
     url |-> urlString([Scheme |-> IF baseURL.Scheme = "" THEN "http"
                                   ELSE baseURL.Scheme,
                        Host |-> baseURL.Host,
                        Path |-> bound.Path,
                        RawQuery |-> IF DOMAIN bound.query # {}
                                     THEN Encode(bound.query) ELSE ""]),
     header |-> IF DOMAIN body # {}
                THEN HeaderSet(bound.header, "Content-Type",
                               "application/json")
                ELSE bound.header,
     body |-> IF DOMAIN body # {} THEN jsonBody(body) ELSE NoBody]

\* server.go:822-849: the path of the URL before the parameters are bound.
startPath(baseURL, p) ==
    IF baseURL.Path # ""
    THEN pathClean(pathClean(baseURL.Path) \o "/" \o p)
    ELSE p

\* server.go:856-910: path-item parameters first, then those of the
\* operation.
bind(baseURL, pathItem, operation, arguments) ==
    bindParameters(
      bindParameters(
        [Path |-> startPath(baseURL,
                            pathClean(IF HasPrefix(pathItem.path, "/")
                                      THEN pathItem.path
                                      ELSE "/" \o pathItem.path)),
         query |-> NoValues, header |-> NoHeader],
        pathItem.Parameters, arguments, FALSE),
      operation.Parameters, arguments, TRUE)

\* server.go:822-959: the request handed to s.client.Do for the operation
\* at slot.
newRequest(s, slot, arguments) ==
    assemble(Methods[slot.method], urlParse(s.baseURL),
             bind(urlParse(s.baseURL), s.model[slot.item], opAt(s, slot),
                  arguments),
             bodyParams(opAt(s, slot), arguments))

\* What s.client.Do and io.ReadAll give back for the outbound request.
Bodies == {"[1]", "oops"}
HttpError == [err |-> TRUE, StatusCode |-> 0, ContentType |-> "",
              Body |-> ""]
HttpOutcomes ==
    {HttpError} \cup
    [err : {FALSE}, StatusCode : {200, 404},
     ContentType : {"application/json", "image/png", "text/plain"},
     Body : Bodies]
NoHttp == [err |-> FALSE, StatusCode |-> 0, ContentType |-> "", Body |-> ""]

\* base64.StdEncoding.EncodeToString(body)
base64Std(body) ==
    CASE body = "[1]" -> "WzFd"
      [] body = "oops" -> "b29wcw=="

\* json.Indent(body, "", "  "); a body that is not JSON is left as it is.
jsonIndent(body) ==
    CASE body = "[1]" -> "[\n  1\n]"
      [] OTHER -> body

NewTextContent(text) ==
    [type |-> "text", text |-> text, audience |-> <<"assistant">>]
NewImageContent(data, mimeType) ==
    [type |-> "image", data |-> data, mimeType |-> mimeType,
     audience |-> <<"assistant">>]

\* The result of a handler: a response value or an error.
\* called and outbound record whether, and with which request, the handler
\* reached s.client.Do.
Ok(result) == [isErr |-> FALSE, result |-> result, error |-> NilError,
               called |-> FALSE, outbound |-> NoCall]
Fail(e) == [isErr |-> TRUE, result |-> NoResult, error |-> e,
            called |-> FALSE, outbound |-> NoCall]

\* server.go:981-996: the Content made of the body of the response.
contentOf(contentType, body) ==
    IF HasPrefix(contentType, "image/")
    THEN NewImageContent(base64Std(body), contentType)
    ELSE IF Contains(contentType, "application/json")
    THEN NewTextContent(jsonIndent(body))
    ELSE NewTextContent(body)

\* Variant: only the statuses from 500 on are reported as errors.
classify_serverErrorsOnly(reached, req, http) ==
    IF http.err
    THEN [Fail(NewError(ErrInternal, ErrData("client.Do")))
            EXCEPT !.called = TRUE, !.outbound = req]
    ELSE IF http.StatusCode >= 500
    THEN [Fail(NewError(ErrInternal,
               NewTextContent("Request failed with status "
                              \o ToString(http.StatusCode) \o ": "
                              \o http.Body)))
            EXCEPT !.called = TRUE, !.outbound = req]
    ELSE [Ok([kind |-> "tools/call",
              Content |-> <<contentOf(http.ContentType, http.Body)>>,
              IsError |-> FALSE, request |-> reached])
            EXCEPT !.called = TRUE, !.outbound = req]

\* server.go:962-1001: the outcome of the call once req has been handed to
\* s.client.Do and http has come back; reached names the operation.
classify(reached, req, http) ==
    IF http.err
    THEN [Fail(NewError(ErrInternal, ErrData("client.Do")))
            EXCEPT !.called = TRUE, !.outbound = req]
    ELSE IF http.StatusCode >= 400
    THEN [Fail(NewError(ErrInternal,
               NewTextContent("Request failed with status "
                              \o ToString(http.StatusCode) \o ": "
                              \o http.Body)))
            EXCEPT !.called = TRUE, !.outbound = req]
    ELSE [Ok([kind |-> "tools/call",
              Content |-> <<contentOf(http.ContentType, http.Body)>>,
              IsError |-> FALSE, request |-> reached])
            EXCEPT !.called = TRUE, !.outbound = req]

\* Variant: the request goes out before the base URL is looked at.
callOperation_sendsFirst(s, f, arguments, http) ==
    IF ~f.found
    THEN Fail(NewError(ErrMethodNotFound, NoData))
    ELSE IF urlParseFails(s.baseURL)
    THEN [Fail(NewError(ErrInternal, ErrData("url.Parse")))
            EXCEPT !.called = TRUE,
                   !.outbound = [NoCall EXCEPT !.made = TRUE,
                                               !.method = f.method,
                                               !.url = s.baseURL \o f.path]]
    ELSE classify([method |-> f.method, url |-> s.baseURL \o f.path],
                  newRequest(s, f.slot[1], arguments), http)

\* server.go:816-825 and what follows for the operation f that was found.
callOperation(s, f, arguments, http) ==
    IF ~f.found
    THEN Fail(NewError(ErrMethodNotFound, NoData))
    ELSE IF urlParseFails(s.baseURL)
    THEN Fail(NewError(ErrInternal, ErrData("url.Parse")))
    ELSE classify([method |-> f.method, url |-> s.baseURL \o f.path],
                  newRequest(s, f.slot[1], arguments), http)

\* params: the decoded ToolCallRequest; http: the outcome of client.Do.
\* The request field of the result names the operation that was reached.
handleToolsCall(s, params, http) ==
    callOperation(s, findOperationByToolName(s, params.Name),
                  params.Arguments, http)

\* Variant: the protocol version of a later revision of MCP.
handleInitialize_otherVersion(s) ==
    Ok([kind |-> "initialize", ProtocolVersion |-> "2025-03-26",
        Capabilities |-> [Tools |-> [ListChanged |-> FALSE]],
        ServerInfo |-> s.info])

handleInitialize(s) ==
    Ok([kind |-> "initialize", ProtocolVersion |-> ProtocolVersion,
        Capabilities |-> [Tools |-> [ListChanged |-> FALSE]],
        ServerInfo |-> s.info])

handlePing == Ok([kind |-> "ping"])

(***************************************************************************)
(* Requests and the router                                                 *)
(***************************************************************************)
\* request.Params: absent, a JSON object that decodes into the method's
\* request type (Name is its "name" member), or JSON that does not.
NoParams == [json |-> "absent", Name |-> "", Arguments |-> NoArgs]
BadParams == [json |-> "malformed", Name |-> "", Arguments |-> NoArgs]
ObjParams(name) == [json |-> "object", Name |-> name, Arguments |-> NoArgs]
CallWith(name, arguments) ==
    [json |-> "object", Name |-> name, Arguments |-> arguments]

\* server.go:630-634: request.Params is nil or json.Unmarshal decodes it
\* into the request type of the method.
paramsDecode(request) == request.Params.json # "malformed"

\* Variant: the handler runs whether or not the params decode.
handleMethod_skipsDecoding(request, handler) ==
    LET r == handler[request.Params]
    IN IF r.isErr
       THEN NewResponse(request.ID, NoResult, r.error)
       ELSE NewResponse(request.ID, r.result, NilError)

\* handleMethod: decode the params, run the handler, wrap its outcome.
\* The handler is a function of the decoded params.
handleMethod(request, handler) ==
    IF ~paramsDecode(request)
    THEN NewResponse(request.ID, NoResult,
                     NewError(ErrInvalidParams, ErrData("json.Unmarshal")))
    ELSE LET r == handler[request.Params]
         IN IF r.isErr
            THEN NewResponse(request.ID, NoResult, r.error)
            ELSE NewResponse(request.ID, r.result, NilError)

HandleRequest(s, request, http) ==
    CASE request.Method = "initialize" ->
           handleMethod(request,
               [p \in {request.Params} |-> handleInitialize(s)])
      [] request.Method = "tools/list" ->
           handleMethod(request,
               [p \in {request.Params} |-> Ok(handleToolsList(s))])
      [] request.Method = "tools/call" ->
           handleMethod(request,
               [p \in {request.Params} |-> handleToolsCall(s, p, http)])
      [] request.Method = "ping/ping" ->
           handleMethod(request,
               [p \in {request.Params} |-> handlePing])
      [] OTHER ->
           NewResponse(request.ID, NoResult,
                       NewError(ErrMethodNotFound, NoData))

\* The request HandleRequest hands to s.client.Do, if it gets there.
clientRequest(s, request, http) ==
    IF request.Method = "tools/call" /\ paramsDecode(request)
    THEN handleToolsCall(s, request.Params, http).outbound
    ELSE NoCall

NewRequest(method, params, id) ==
    [Version |-> Version, Method |-> method, Params |-> params,
     ID |-> NewID(id)]

(***************************************************************************)
(* Transport.Run: the stdin byte stream and the lines it carries.          *)
(*                                                                         *)
(* A byte of the stream is a line terminator or a unit of line content.    *)
(* A unit stands for the bytes of one JSON text: "Q" a request with an id, *)
(* "N" a notification, "M" a JSON object with an id and no method, "A" a    *)
(* JSON array, "X" text that is not JSON.  A line of several units is not  *)
(* one JSON value, so json.Unmarshal rejects it; it rejects "A" as well,   *)
(* an array not being a value for the struct Request.                      *)
(***************************************************************************)
LF == "\n"
CR == "\r"
Alphabet == {LF, CR, "Q", "N", "X"}

Inputs == UNION {[1..n -> Alphabet] : n \in 0..MaxInput}

WireRequests == {"Q", "N", "M"}

wireRequest(unit) ==
    CASE unit = "Q" -> [jsonrpc |-> "2.0", method |-> "tools/list",
                        params |-> NoParams,
                        id |-> [json |-> "number", text |-> "1"]]
      [] unit = "N" -> [jsonrpc |-> "2.0",
                        method |-> "notifications/initialized",
                        params |-> NoParams, id |-> AbsentJSON]
      [] unit = "M" -> [jsonrpc |-> "2.0", method |-> "",
                        params |-> NoParams,
                        id |-> [json |-> "number", text |-> "1"]]

\* json.Unmarshal([]byte(line), &request) returns no error.
unmarshalOK(l) ==
    /\ Len(l) = 1
    /\ l[1] \in WireRequests
    /\ \/ wireRequest(l[1]).id = AbsentJSON
       \/ IDUnmarshalOK(wireRequest(l[1]).id)

\* The Request it fills in; the ID of a line without "id" stays the zero ID.
unmarshal(l) ==
    LET w == wireRequest(l[1])
    IN [Version |-> w.jsonrpc, Method |-> w.method, Params |-> w.params,
        ID |-> IF w.id = AbsentJSON THEN NilID ELSE IDUnmarshalJSON(w.id)]

\* The handler goroutine's answer to one line (transport.go:255-266).
respond(s, l, http) ==
    IF ~unmarshalOK(l)
    THEN NewResponse(NilID, NoResult,
                     NewError(ErrParse, ErrData("json.Unmarshal")))
    ELSE HandleRequest(s, unmarshal(l), http)

\* The writer goroutine's buffer for one response (transport.go:141-148).
encode(r) == <<[byte |-> "json", text |-> MarshalResponse(r)], [byte |-> LF]>>

(***************************************************************************)
(* Transport.Run: the three goroutines.                                    *)
(***************************************************************************)
Tasks == {"reader", "handler", "writer"}

NoResponse == NewResponse(NilID, NoResult, NilError)

TransportServer == NewServer(DocOf(<<1, 1>> :> "listPets"))

\* The errgroup context: done once the signal context is done or a
\* goroutine has returned an error.
ctxDone == signalled \/ \E t \in Tasks : ret[t] = "err"

RunReturned == \A t \in Tasks : pc[t] = "done"

\* g.Wait(): the error of the group, nil when no goroutine returned one.
RunResult == IF \E t \in Tasks : ret[t] = "err" THEN "err" ELSE "nil"

TransportInit ==
    /\ rpos = 0
    /\ line = <<>>
    /\ pc = [t \in Tasks |-> IF t = "handler" THEN "recv" ELSE "setup"]
    /\ ret = [t \in Tasks |-> "-"]
    /\ signalled = FALSE
    /\ hline = <<>>
    /\ hresp = NoResponse
    /\ closed = FALSE
    /\ buf = <<>>
    /\ out = <<>>
    /\ handled = <<>>
    /\ wline = <<>>
    /\ written = <<>>
    /\ wfail = ""
    /\ taken = 0

RouterIdle ==
    /\ lastReq = NewRequest("", NoParams, NilID)
    /\ lastResp = NoResponse
    /\ lastHttp = NoHttp
    /\ lastCall = NoCall
    /\ history = <<>>
    /\ firstList = NoResult
    /\ fresh = server
    /\ client = <<>>
    /\ opts = <<>>
    /\ built = <<>>
    /\ wire = [by |-> 0, request |-> NoCall]
    /\ braceCount = 0

Init ==
    /\ server = TransportServer
    /\ input \in Inputs
    /\ TransportInit
    /\ RouterIdle

\* A goroutine returns r; the handler's deferred close(responses) runs.
Return(t, r) ==
    /\ pc' = [pc EXCEPT ![t] = "done"]
    /\ ret' = [ret EXCEPT ![t] = r]
    /\ closed' = (closed \/ t = "handler")

Goto(t, label) ==
    /\ pc' = [pc EXCEPT ![t] = label]
    /\ UNCHANGED <<ret, closed>>

\* signal.NotifyContext: SIGINT or SIGTERM arrives while Run is running.
Signal ==
    /\ ~signalled
    /\ ~RunReturned
    /\ signalled' = TRUE
    /\ UNCHANGED <<server, input, rpos, line, pc, ret, hline, hresp, closed,
                   buf, out, handled, wline, written, wfail, taken>>
    /\ UNCHANGED rvars

------------------------------------------------------------------------------
\* Reader goroutine (transport.go:186-238).

ReaderSetup ==
    /\ pc["reader"] = "setup"
    /\ Goto("reader", "read")
    /\ UNCHANGED <<server, input, rpos, line, signalled, hline, hresp, buf,
                   out, handled, wline, written, wfail, taken>>
    /\ UNCHANGED rvars

\* setupNonBlockingFd fails: unix.Dup or unix.SetNonblock returns an error.
ReaderSetupFails ==
    /\ pc["reader"] = "setup"
    /\ Return("reader", "err")
    /\ UNCHANGED <<server, input, rpos, line, signalled, hline, hresp, buf,
                   out, handled, wline, written, wfail, taken>>
    /\ UNCHANGED rvars

\* case <-ctx.Done() at the top of the loop: taken whenever the context is
\* done, since the other branch is the default.
ReaderCancelled ==
    /\ pc["reader"] = "read"
    /\ ctxDone
    /\ Return("reader", "nil")
    /\ UNCHANGED <<server, input, rpos, line, signalled, hline, hresp, buf,
                   out, handled, wline, written, wfail, taken>>
    /\ UNCHANGED rvars

\* The default branch of the select: the context is not done, the read is
\* issued.  The context may become done before the read returns.
ReaderRead ==
    /\ pc["reader"] = "read"
    /\ ~ctxDone
    /\ Goto("reader", "reading")
    /\ UNCHANGED <<server, input, rpos, line, signalled, hline, hresp, buf,
                   out, handled, wline, written, wfail, taken>>
    /\ UNCHANGED rvars

\* The read returns one byte.
ReaderByte ==
    /\ pc["reader"] = "reading"
    /\ rpos < Len(input)
    /\ rpos' = rpos + 1
    /\ LET b == input[rpos + 1]
       IN IF b = LF \/ b = CR
          THEN /\ line' = line
               /\ IF Len(line) > 0
                  THEN Goto("reader", "send")
                  ELSE Goto("reader", "read")
          ELSE /\ line' = Append(line, b)
               /\ Goto("reader", "read")
    /\ UNCHANGED <<server, input, signalled, hline, hresp, buf, out,
                   handled, wline, written, wfail, taken>>
    /\ UNCHANGED rvars

\* The read returns EAGAIN (no byte has arrived yet): sleep and retry.
ReaderEAGAIN ==
    /\ pc["reader"] = "reading"
    /\ Goto("reader", "sleep")
    /\ UNCHANGED <<server, input, rpos, line, signalled, hline, hresp, buf,
                   out, handled, wline, written, wfail, taken>>
    /\ UNCHANGED rvars

ReaderWake ==
    /\ pc["reader"] = "sleep"
    /\ Goto("reader", "read")
    /\ UNCHANGED <<server, input, rpos, line, signalled, hline, hresp, buf,
                   out, handled, wline, written, wfail, taken>>
    /\ UNCHANGED rvars

\* Variant: at the end of input the reader sends the line it holds.
ReaderEOF_flushesLine ==
    /\ pc["reader"] = "reading"
    /\ rpos = Len(input)
    /\ IF Len(line) > 0
       THEN Goto("reader", "send")
       ELSE Return("reader", "nil")
    /\ UNCHANGED <<server, input, rpos, line, signalled, hline, hresp, buf,
                   out, handled, wline, written, wfail, taken>>
    /\ UNCHANGED rvars

\* End of input: the read returns io.EOF, or no byte and no error.
ReaderEOF ==
    /\ pc["reader"] = "reading"
    /\ rpos = Len(input)
    /\ Return("reader", "nil")
    /\ UNCHANGED <<server, input, rpos, line, signalled, hline, hresp, buf,
                   out, handled, wline, written, wfail, taken>>
    /\ UNCHANGED rvars

\* The read returns any other error.
ReaderError ==
    /\ pc["reader"] = "reading"
    /\ Return("reader", "err")
    /\ UNCHANGED <<server, input, rpos, line, signalled, hline, hresp, buf,
                   out, handled, wline, written, wfail, taken>>
    /\ UNCHANGED rvars

\* Variant: the send on lines is not in a select with ctx.Done().
ReaderSendCancelled_plainSend ==
    /\ FALSE
    /\ UNCHANGED vars

\* Blocked in lines <- string(line), case <-ctx.Done().
ReaderSendCancelled ==
    /\ pc["reader"] = "send"
    /\ ctxDone
    /\ Return("reader", "nil")
    /\ UNCHANGED <<server, input, rpos, line, signalled, hline, hresp, buf,
                   out, handled, wline, written, wfail, taken>>
    /\ UNCHANGED rvars

\* Variant: a line is accepted while the response of the line before still
\* waits to be sent, as when each line had a goroutine of its own.
LineHandoff_whileSending ==
    /\ pc["reader"] = "send"
    /\ pc["handler"] \in {"recv", "send"}
    /\ hline' = line
    /\ line' = <<>>
    /\ pc' = [pc EXCEPT !["reader"] = "read", !["handler"] = "call"]
    /\ UNCHANGED <<server, input, rpos, ret, signalled, hresp, closed, buf,
                   out, handled, wline, written, wfail, taken>>
    /\ UNCHANGED rvars

\* lines is unbuffered: the reader's send and the handler's receive happen
\* together.  Either side may take this branch of its select although the
\* context is done.
LineHandoff ==
    /\ pc["reader"] = "send"
    /\ pc["handler"] = "recv"
    /\ hline' = line
    /\ line' = <<>>
    /\ pc' = [pc EXCEPT !["reader"] = "read", !["handler"] = "call"]
    /\ UNCHANGED <<server, input, rpos, ret, signalled, hresp, closed, buf,
                   out, handled, wline, written, wfail, taken>>
    /\ UNCHANGED rvars

------------------------------------------------------------------------------
\* Handler goroutine (transport.go:241-274).  The reader never closes
\* lines, so the receive never yields ok = false.

HandlerCancelled ==
    /\ pc["handler"] = "recv"
    /\ ctxDone
    /\ Return("handler", "nil")
    /\ UNCHANGED <<server, input, rpos, line, signalled, hline, hresp, buf,
                   out, handled, wline, written, wfail, taken>>
    /\ UNCHANGED rvars

\* Variant: the handler goroutine returns nil after a line that does not
\* parse instead of answering it and going on.
HandlerCall_returnsOnParseError ==
    /\ pc["handler"] = "call"
    /\ IF hline = <<>>
       THEN /\ Goto("handler", "recv")
            /\ UNCHANGED <<hresp, handled>>
       ELSE /\ hresp' = respond(server, hline, NoHttp)
            /\ handled' = Append(handled, hline)
            /\ IF unmarshalOK(hline)
               THEN Goto("handler", "send")
               ELSE Return("handler", "nil")
    /\ UNCHANGED <<server, input, rpos, line, signalled, hline, buf, out,
                   wline, written, wfail, taken>>
    /\ UNCHANGED rvars

\* Parse the line and build its response; an empty line is skipped.  No line
\* of the Alphabet is a tools/call, so the handler does not reach client.Do.
HandlerCall ==
    /\ pc["handler"] = "call"
    /\ IF hline = <<>>
       THEN /\ Goto("handler", "recv")
            /\ UNCHANGED <<hresp, handled>>
       ELSE /\ hresp' = respond(server, hline, NoHttp)
            /\ handled' = Append(handled, hline)
            /\ Goto("handler", "send")
    /\ UNCHANGED <<server, input, rpos, line, signalled, hline, buf, out,
                   wline, written, wfail, taken>>
    /\ UNCHANGED rvars

\* Variant: the case <-ctx.Done() returns ctx.Err().
HandlerSendCancelled_returnsCtxErr ==
    /\ pc["handler"] = "send"
    /\ ctxDone
    /\ Return("handler", "err")
    /\ UNCHANGED <<server, input, rpos, line, signalled, hline, hresp, buf,
                   out, handled, wline, written, wfail, taken>>
    /\ UNCHANGED rvars

\* Blocked in responses <- response, case <-ctx.Done().
HandlerSendCancelled ==
    /\ pc["handler"] = "send"
    /\ ctxDone
    /\ Return("handler", "nil")
    /\ UNCHANGED <<server, input, rpos, line, signalled, hline, hresp, buf,
                   out, handled, wline, written, wfail, taken>>
    /\ UNCHANGED rvars

\* responses is unbuffered: the handler's send and the writer's receive
\* happen together; the writer marshals the response into its buffer.
ResponseHandoff ==
    /\ pc["handler"] = "send"
    /\ pc["writer"] = "recv"
    /\ buf' = encode(hresp)
    /\ wline' = hline
    /\ taken' = taken + 1
    /\ pc' = [pc EXCEPT !["handler"] = "recv", !["writer"] = "write"]
    /\ UNCHANGED <<server, input, rpos, line, ret, signalled, hline, hresp,
                   closed, out, handled, written, wfail>>
    /\ UNCHANGED rvars

------------------------------------------------------------------------------
\* Writer goroutine (transport.go:124-183).

WriterSetup ==
    /\ pc["writer"] = "setup"
    /\ Goto("writer", "recv")
    /\ UNCHANGED <<server, input, rpos, line, signalled, hline, hresp, buf,
                   out, handled, wline, written, wfail, taken>>
    /\ UNCHANGED rvars

WriterSetupFails ==
    /\ pc["writer"] = "setup"
    /\ Return("writer", "err")
    /\ UNCHANGED <<server, input, rpos, line, signalled, hline, hresp, buf,
                   out, handled, wline, written, wfail, taken>>
    /\ UNCHANGED rvars

\* Waiting for a response, case <-ctx.Done().
WriterCancelled ==
    /\ pc["writer"] = "recv"
    /\ ctxDone
    /\ Return("writer", "nil")
    /\ UNCHANGED <<server, input, rpos, line, signalled, hline, hresp, buf,
                   out, handled, wline, written, wfail, taken>>
    /\ UNCHANGED rvars

\* Waiting for a response, responses is closed: ok = false.
WriterClosed ==
    /\ pc["writer"] = "recv"
    /\ closed
    /\ Return("writer", "nil")
    /\ UNCHANGED <<server, input, rpos, line, signalled, hline, hresp, buf,
                   out, handled, wline, written, wfail, taken>>
    /\ UNCHANGED rvars

\* case <-ctx.Done() of the write loop: taken whenever the context is done.
WriterWriteCancelled ==
    /\ pc["writer"] = "write"
    /\ ctxDone
    /\ Return("writer", "nil")
    /\ UNCHANGED <<server, input, rpos, line, signalled, hline, hresp, buf,
                   out, handled, wline, written, wfail, taken>>
    /\ UNCHANGED rvars

\* The default branch of the select of the write loop: the context is not
\* done, the write is issued.
WriterIssue ==
    /\ pc["writer"] = "write"
    /\ ~ctxDone
    /\ Goto("writer", "writing")
    /\ UNCHANGED <<server, input, rpos, line, signalled, hline, hresp, buf,
                   out, handled, wline, written, wfail, taken>>
    /\ UNCHANGED rvars

\* Variant: after a partial write the buffer is not advanced (buf = buf[n:]
\* missing), so the bytes already accepted are written again.
WriterWrite_keepsBuffer ==
    /\ pc["writer"] = "writing"
    /\ \E n \in 1..Len(buf) :
         /\ out' = out \o SubSeq(buf, 1, n)
         /\ IF n = Len(buf)
            THEN buf' = <<>> /\ Goto("writer", "recv")
            ELSE buf' = buf /\ Goto("writer", "write")
    /\ written' = IF buf[1].byte = "json"
                  THEN Append(written, wline) ELSE written
    /\ UNCHANGED <<server, input, rpos, line, signalled, hline, hresp,
                   handled, wline, wfail, taken>>
    /\ UNCHANGED rvars

\* The write accepts n > 0 bytes of the buffer.
WriterWrite ==
    /\ pc["writer"] = "writing"
    /\ \E n \in 1..Len(buf) :
         /\ out' = out \o SubSeq(buf, 1, n)
         /\ buf' = SubSeq(buf, n + 1, Len(buf))
         /\ IF n = Len(buf)
            THEN Goto("writer", "recv")
            ELSE Goto("writer", "write")
    /\ written' = IF buf[1].byte = "json"
                  THEN Append(written, wline) ELSE written
    /\ UNCHANGED <<server, input, rpos, line, signalled, hline, hresp,
                   handled, wline, wfail, taken>>
    /\ UNCHANGED rvars

\* The write returns EAGAIN (stdout is full): sleep and retry.
WriterEAGAIN ==
    /\ pc["writer"] = "writing"
    /\ Goto("writer", "sleep")
    /\ UNCHANGED <<server, input, rpos, line, signalled, hline, hresp, buf,
                   out, handled, wline, written, wfail, taken>>
    /\ UNCHANGED rvars

\* Variant: after the sleep the writer waits for the next response.
WriterWake_nextResponse ==
    /\ pc["writer"] = "sleep"
    /\ Goto("writer", "recv")
    /\ UNCHANGED <<server, input, rpos, line, signalled, hline, hresp, buf,
                   out, handled, wline, written, wfail, taken>>
    /\ UNCHANGED rvars

WriterWake ==
    /\ pc["writer"] = "sleep"
    /\ Goto("writer", "write")
    /\ UNCHANGED <<server, input, rpos, line, signalled, hline, hresp, buf,
                   out, handled, wline, written, wfail, taken>>
    /\ UNCHANGED rvars

\* The write returns io.EOF: the writer returns nil.
WriterEOF ==
    /\ pc["writer"] = "writing"
    /\ wfail' = "EOF"
    /\ Return("writer", "nil")
    /\ UNCHANGED <<server, input, rpos, line, signalled, hline, hresp, buf,
                   out, handled, wline, written, taken>>
    /\ UNCHANGED rvars

\* The write accepts no byte and returns no error: the writer returns nil.
WriterZero ==
    /\ pc["writer"] = "writing"
    /\ wfail' = "zero"
    /\ Return("writer", "nil")
    /\ UNCHANGED <<server, input, rpos, line, signalled, hline, hresp, buf,
                   out, handled, wline, written, taken>>
    /\ UNCHANGED rvars

\* The write returns any other error: the writer returns it.
WriterError ==
    /\ pc["writer"] = "writing"
    /\ wfail' = "error"
    /\ Return("writer", "err")
    /\ UNCHANGED <<server, input, rpos, line, signalled, hline, hresp, buf,
                   out, handled, wline, written, taken>>
    /\ UNCHANGED rvars

------------------------------------------------------------------------------
ReaderStep ==
    \/ ReaderSetup \/ ReaderSetupFails \/ ReaderCancelled \/ ReaderRead
    \/ ReaderByte \/ ReaderEAGAIN \/ ReaderWake \/ ReaderEOF \/ ReaderError
    \/ ReaderSendCancelled

HandlerStep ==
    \/ HandlerCancelled \/ HandlerCall \/ HandlerSendCancelled

WriterStep ==
    \/ WriterSetup \/ WriterSetupFails \/ WriterCancelled \/ WriterClosed
    \/ WriterWriteCancelled \/ WriterIssue \/ WriterWrite \/ WriterEAGAIN \/ WriterWake
    \/ WriterEOF \/ WriterZero \/ WriterError

\* A step of some goroutine of Run.
TaskStep ==
    ReaderStep \/ HandlerStep \/ WriterStep \/ LineHandoff
    \/ ResponseHandoff

Next ==
    \/ Signal
    \/ ReaderSetup \/ ReaderSetupFails \/ ReaderCancelled \/ ReaderRead
    \/ ReaderByte \/ ReaderEAGAIN \/ ReaderWake \/ ReaderEOF \/ ReaderError
    \/ ReaderSendCancelled \/ LineHandoff
    \/ HandlerCancelled \/ HandlerCall \/ HandlerSendCancelled
    \/ ResponseHandoff
    \/ WriterSetup \/ WriterSetupFails \/ WriterCancelled \/ WriterClosed
    \/ WriterWriteCancelled \/ WriterIssue \/ WriterWrite \/ WriterEAGAIN \/ WriterWake
    \/ WriterEOF \/ WriterZero \/ WriterError

Spec == Init /\ [][Next]_vars

(***************************************************************************)
(* The router on its own: HandleRequest applied to requests built with     *)
(* jsonrpc.NewRequest, on every server of Servers.                         *)
(***************************************************************************)
\* The id 1 as NewID keeps it.
ID1 == [kind |-> "int", val |-> "1"]

RequestIDs == {NilID, [kind |-> "int", val |-> "1"],
               [kind |-> "str", val |-> "a"]}

\* Names a tools/call may ask for.
CallNames == {"", "listPets", "nonexistent", Long65, Long66, Short64,
              getToolName(Long66)}

CallParams == {NoParams, BadParams} \cup {ObjParams(n) : n \in CallNames}
PlainParams == {NoParams, BadParams, ObjParams("")}

\* Methods the switch of HandleRequest has no case for.
OtherMethods == {"ping", "notifications/initialized", "initialized",
                 "resources/list"}

RouterInit ==
    /\ server \in Servers
    /\ input = <<>>
    /\ TransportInit
    /\ RouterIdle

\* One request is served per behaviour: the server is immutable, so the
\* response to a request does not depend on the requests before it.
Unserved == lastReq.Method = ""

\* The bookkeeping of one served request: what was asked, what the HTTP
\* client was given and returned, and what was answered.
Served(request, response, call, http) ==
    /\ lastReq' = request
    /\ lastHttp' = http
    /\ lastResp' = response
    /\ lastCall' = call
    /\ history' = Append(history, [Method |-> request.Method,
                                   ok |-> response.Error.isNil])
    /\ firstList' = IF request.Method = "tools/list" /\ response.Error.isNil
                       /\ firstList = NoResult
                    THEN response.Result ELSE firstList
    /\ UNCHANGED fresh
    /\ UNCHANGED tvars

\* Variant: a tools/call that fails drops the first path item of the model.
Handle_forgetsOnFailure(request, response, call, http) ==
    /\ Served(request, response, call, http)
    /\ UNCHANGED <<client, opts, built, wire, braceCount>>
    /\ server' = IF request.Method = "tools/call" /\ ~response.Error.isNil
                 THEN [server EXCEPT !.model = Tail(@)] ELSE server

\* HandleRequest(request) on the server, with http what s.client.Do returns
\* should the handler call it.  No handler assigns to a field of the server.
Handle(request, response, call, http) ==
    /\ Served(request, response, call, http)
    /\ UNCHANGED <<client, opts, built, wire, braceCount>>
    /\ UNCHANGED server

Serve(request, http) ==
    Handle(request, HandleRequest(server, request, http),
           clientRequest(server, request, http), http)

Route(method, params, id, http) ==
    Serve(NewRequest(method, params, id), http)

RouteInitialize ==
    /\ Unserved
    /\ \E id \in RequestIDs, p \in PlainParams :
         Route("initialize", p, id, NoHttp)

RouteToolsList ==
    /\ Unserved
    /\ \E id \in RequestIDs, p \in PlainParams :
         Route("tools/list", p, id, NoHttp)

\* The HTTP client is reached only when the name resolves to an operation.
RouteToolsCall ==
    /\ Unserved
    /\ \E id \in RequestIDs, p \in CallParams :
         IF p.json # "malformed"
            /\ findOperationByToolName(server, p.Name).found
         THEN \E http \in HttpOutcomes : Route("tools/call", p, id, http)
         ELSE Route("tools/call", p, id, NoHttp)

RoutePing ==
    /\ Unserved
    /\ \E id \in RequestIDs, p \in PlainParams :
         Route("ping/ping", p, id, NoHttp)

RouteOther ==
    /\ Unserved
    /\ \E m \in OtherMethods, id \in RequestIDs, p \in PlainParams :
         Route(m, p, id, NoHttp)

RouterNext ==
    \/ RouteInitialize \/ RouteToolsList \/ RouteToolsCall \/ RoutePing
    \/ RouteOther

RouterSpec == RouterInit /\ [][RouterNext]_vars

(***************************************************************************)
(* Run under the Go scheduler: a goroutine that can take a step, and a     *)
(* channel operation both of whose sides are waiting, eventually happens.  *)
(* Nothing obliges the signal to arrive.                                   *)
(***************************************************************************)
\* The inputs of FairSpec: one terminator, one line that parses and one that
\* does not are enough to reach every position of the three goroutines.
FairAlphabet == {LF, "Q", "X"}

FairInputs == UNION {[1..n -> FairAlphabet] : n \in 0..MaxFairInput}

FairInit ==
    /\ server = TransportServer
    /\ input \in FairInputs
    /\ TransportInit
    /\ RouterIdle

FairSpec ==
    /\ FairInit
    /\ [][Next]_vars
    /\ WF_vars(ReaderStep)
    /\ WF_vars(HandlerStep)
    /\ WF_vars(WriterStep)
    /\ WF_vars(LineHandoff)
    /\ WF_vars(ResponseHandoff)

(***************************************************************************)
(* tools/call on operations that declare parameters and a request body:    *)
(* one call of GET /pets/{petId} per behaviour, on every server of         *)
(* CallServers with every argument map of ArgumentMaps.                    *)
(***************************************************************************)
ParamNames == {ArgNames[i] : i \in 1..Len(ArgNames)}

\* v3.Parameter: its Name and In; each is optional, has a schema and no
\* description.
Parameters == [Name : ParamNames, In : {"path", "query", "header"},
               Required : {FALSE}, Schema : {TRUE}, Description : {""}]

\* The path item, and the operation, declares no parameter or one.
ParameterLists == {<<>>} \cup {<<p>> : p \in Parameters}

RequestBodies == {NoRequestBody, RequestBody(<<"fields">>),
                  RequestBody(<<"fields", "petId">>)}

\* A document with the one operation getPet at GET /pets/{petId}.
CallDoc(itemParameters, parameters, body) ==
    <<[path |-> "/pets/{petId}",
       Parameters |-> itemParameters,
       ops |-> [m \in 1..Len(Methods) |->
                  IF m = 1
                  THEN [Operation("getPet") EXCEPT !.Parameters = parameters,
                                                   !.RequestBody = body]
                  ELSE NilOp]]>>

CallServers ==
    {NewServer(CallDoc(ip, op, b)) :
       ip \in ParameterLists, op \in ParameterLists, b \in RequestBodies}

Scalars == {Str("special pet"), Num(5), Num(1000000)}
ArrayElems == {Str("a"), Num(5)}
Arrays == {Arr(e) : e \in UNION {[1..n -> ArrayElems] : n \in 0..MaxArray}}

ArgumentMaps == UNION {[D -> Scalars \cup Arrays] : D \in SUBSET ParamNames}

\* The upstream answers every call of CallSpec with 200 and a text body.
CallHttp == [err |-> FALSE, StatusCode |-> 200, ContentType |-> "text/plain",
             Body |-> "oops"]

CallInit ==
    /\ server \in CallServers
    /\ input = <<>>
    /\ TransportInit
    /\ RouterIdle

CallTool ==
    /\ Unserved
    /\ \E arguments \in ArgumentMaps :
         Route("tools/call", CallWith("getPet", arguments), ID1, CallHttp)

CallNext == CallTool

CallSpec == CallInit /\ [][CallNext]_vars

(***************************************************************************)
(* OverrideSpec: one tools/list or tools/call on a server whose path item  *)
(* and operation may both declare the parameter petId.                     *)
(***************************************************************************)
ItemParameters ==
    [Name : {"petId"}, In : {"path", "query", "header"}, Required : BOOLEAN,
     Schema : BOOLEAN, Description : {"of the path item"}]

OperationParameters ==
    [Name : {"petId"}, In : {"path", "query", "header"}, Required : BOOLEAN,
     Schema : BOOLEAN, Description : {"of the operation"}]

OverrideServers ==
    {NewServer(CallDoc(ip, op, NoRequestBody)) :
       ip \in {<<>>} \cup {<<p>> : p \in ItemParameters},
       op \in {<<>>} \cup {<<p>> : p \in OperationParameters}}

OverrideValues == {Str("special pet"), Num(5), Arr(<<Str("a"), Num(5)>>)}

OverrideInit ==
    /\ server \in OverrideServers
    /\ input = <<>>
    /\ TransportInit
    /\ RouterIdle

OverrideList ==
    /\ Unserved
    /\ Route("tools/list", NoParams, ID1, NoHttp)

OverrideCall ==
    /\ Unserved
    /\ \E v \in OverrideValues :
         Route("tools/call", CallWith("getPet", [n \in {"petId"} |-> v]),
               ID1, CallHttp)

OverrideNext == OverrideList \/ OverrideCall

OverrideSpec == OverrideInit /\ [][OverrideNext]_vars

(***************************************************************************)
(* A session: up to MaxRequests requests served one after the other by the *)
(* same server.                                                            *)
(***************************************************************************)
SessionServers ==
    {TransportServer,
     [NewServer(DocOf(<<1, 1>> :> "listPets" @@ <<2, 1>> :> "getPet"))
        EXCEPT !.info = [Name |-> "Test API", Version |-> "1.0.0"]]}

SessionHttp == {HttpError,
                [err |-> FALSE, StatusCode |-> 200,
                 ContentType |-> "application/json", Body |-> "[1]"],
                [err |-> FALSE, StatusCode |-> 404,
                 ContentType |-> "text/plain", Body |-> "oops"]}

SessionInit ==
    /\ server \in SessionServers
    /\ input = <<>>
    /\ TransportInit
    /\ RouterIdle

MoreRequests == Len(history) < MaxRequests

SessionInitialize ==
    /\ MoreRequests
    /\ \E p \in {NoParams, BadParams} : Route("initialize", p, ID1, NoHttp)

\* The notification a client sends after initialize; it carries no id.
SessionInitialized ==
    /\ MoreRequests
    /\ Route("notifications/initialized", NoParams, NilID, NoHttp)

SessionToolsList ==
    /\ MoreRequests
    /\ Route("tools/list", NoParams, ID1, NoHttp)

SessionToolsCall ==
    /\ MoreRequests
    /\ \E name \in {"listPets", "getPet"} :
         IF findOperationByToolName(server, name).found
         THEN \E http \in SessionHttp :
                Route("tools/call", ObjParams(name), ID1, http)
         ELSE Route("tools/call", ObjParams(name), ID1, NoHttp)

SessionPing ==
    /\ MoreRequests
    /\ Route("ping/ping", NoParams, ID1, NoHttp)

SessionNext ==
    \/ SessionInitialize \/ SessionInitialized \/ SessionToolsList
    \/ SessionToolsCall \/ SessionPing

SessionSpec == SessionInit /\ [][SessionNext]_vars

(***************************************************************************)
(* Transport.Run on lines that are JSON but not a request envelope.        *)
(***************************************************************************)
ShapeAlphabet == {LF, "A", "M"}

ShapeInputs == UNION {[1..n -> ShapeAlphabet] : n \in 0..MaxShapeInput}

ShapeInit ==
    /\ server = TransportServer
    /\ input \in ShapeInputs
    /\ TransportInit
    /\ RouterIdle

ShapeSpec == ShapeInit /\ [][Next]_vars

(***************************************************************************)
(* Construction: NewServer applied to lists of options, by callers that    *)
(* may hand the same *http.Client to several calls, and tools/call on the  *)
(* servers it returned.  libopenapi is outside the repository: the bytes   *)
(* given to WithSpecData are described by what NewDocument and             *)
(* BuildV3Model make of them.                                              *)
(***************************************************************************)
MaxServers == 2  \* calls of NewServer in one behaviour
MaxOptions == 3  \* options given to one call of NewServer

\* data: its length, whether NewDocument returns a document, whether
\* BuildV3Model returns no error, and the servers of the model it builds.
EmptyData == [len |-> 0, document |-> FALSE, builds |-> FALSE,
              Servers |-> <<>>]
MalformedData == [len |-> 1, document |-> FALSE, builds |-> FALSE,
                  Servers |-> <<>>]
UnbuildableData == [len |-> 1, document |-> TRUE, builds |-> FALSE,
                    Servers |-> <<>>]
ValidData(servers) == [len |-> 1, document |-> TRUE, builds |-> TRUE,
                       Servers |-> servers]

SpecDatas == {EmptyData, MalformedData, UnbuildableData, ValidData(<<>>),
              ValidData(<<"">>), ValidData(<<"http://h">>),
              ValidData(<<"http://h/">>), ValidData(<<":">>)}

Auths == {"mytoken123", "Bearer a", "Bearer b"}

\* strings.TrimSpace, strings.TrimSuffix(str, "/") and the number of parts
\* of strings.SplitN(str, " ", 2).
RECURSIVE TrimSpace(_)
TrimSpace(str) ==
    IF str = "" THEN str
    ELSE IF Char(str, 1) = " " THEN TrimSpace(SubSeq(str, 2, Len(str)))
    ELSE IF Char(str, Len(str)) = " "
         THEN TrimSpace(SubSeq(str, 1, Len(str) - 1))
    ELSE str

TrimSuffix(str, suffix) ==
    IF Len(str) >= Len(suffix)
       /\ SubSeq(str, Len(str) - Len(suffix) + 1, Len(str)) = suffix
    THEN SubSeq(str, 1, Len(str) - Len(suffix))
    ELSE str

SplitN2(str) == IF Contains(str, " ") THEN 2 ELSE 1

\* A ServerOption.
Option(name, data, auth) == [opt |-> name, data |-> data, auth |-> auth]

Options ==
    {Option("WithSpecData", d, "") : d \in SpecDatas}
    \cup {Option("WithAuth", EmptyData, a) : a \in Auths}
    \cup {Option("WithClient", EmptyData, "")}

OptionLists == UNION {[1..n -> Options] : n \in 0..MaxOptions}

\* &Server{client: &http.Client{Transport: http.DefaultTransport}}.  client
\* tells whose http.Client the server holds; transport is the Transport of
\* its own client, the HeaderTransports from the outermost to the base.
ZeroServer ==
    [auth |-> "", doc |-> FALSE, model |-> <<>>, baseURL |-> "",
     client |-> "own", transport |-> <<>>,
     info |-> [Name |-> "", Version |-> ""]]

NoServer == [ZeroServer EXCEPT !.client = "nil"]

\* What an option returns, and the server as it leaves it.
Applied(s) == [err |-> FALSE, s |-> s]
Refused(s) == [err |-> TRUE, s |-> s]

\* Variant: the servers of the model are not looked at.
WithSpecData_anyServers(s, data) ==
    IF data.len = 0 THEN Refused(s)
    ELSE IF ~data.document THEN Refused(s)
    ELSE IF ~data.builds THEN Refused([s EXCEPT !.doc = TRUE])
    ELSE Applied([s EXCEPT !.doc = TRUE,
                           !.model = TransportServer.model,
                           !.baseURL = IF data.Servers = <<>> THEN ""
                                       ELSE TrimSuffix(data.Servers[1],
                                                       "/")])

WithSpecData(s, data) ==
    IF data.len = 0 THEN Refused(s)
    ELSE IF ~data.document THEN Refused(s)
    ELSE IF ~data.builds THEN Refused([s EXCEPT !.doc = TRUE])
    ELSE IF Len(data.Servers) = 0 \/ data.Servers[1] = ""
         THEN Refused([s EXCEPT !.doc = TRUE,
                                !.model = TransportServer.model])
    ELSE Applied([s EXCEPT !.doc = TRUE,
                           !.model = TransportServer.model,
                           !.baseURL = TrimSuffix(data.Servers[1], "/")])

WithAuth(s, auth) ==
    IF SplitN2(TrimSpace(auth)) # 2 THEN Refused(s)
    ELSE Applied([s EXCEPT !.auth = TrimSpace(auth)])

WithClient(s) == Applied([s EXCEPT !.client = "shared"])

applyOption(s, o) ==
    CASE o.opt = "WithSpecData" -> WithSpecData(s, o.data)
      [] o.opt = "WithAuth" -> WithAuth(s, o.auth)
      [] o.opt = "WithClient" -> WithClient(s)

\* The loop over opts of NewServer: the first error ends it.
RECURSIVE applyOptions(_, _)
applyOptions(r, options) ==
    IF r.err \/ options = <<>> THEN r
    ELSE applyOptions(applyOption(r.s, options[1]), Tail(options))

\* server.go:563-583 for the server s the options left, shared being the
\* Transport of the shared client: the Transport of s.client is wrapped,
\* then s.doc is checked.
finish(s, shared) ==
    [err |-> ~s.doc,
     server |-> IF ~s.doc THEN NoServer
                ELSE IF s.auth # "" /\ s.client = "own"
                     THEN [s EXCEPT !.transport = <<s.auth>> \o @]
                     ELSE s,
     shared |-> IF s.auth # "" /\ s.client = "shared"
                THEN <<s.auth>> \o shared ELSE shared]

wrapUp(r, shared) ==
    IF r.err THEN [err |-> TRUE, server |-> NoServer, shared |-> shared]
    ELSE finish(r.s, shared)

\* NewServer(opts...)
NewServerOpts(options, shared) ==
    wrapUp(applyOptions(Applied(ZeroServer), options), shared)

\* HeaderTransport.RoundTrip down a chain of HeaderTransports whose Headers
\* hold one Authorization value each: the request the base receives.
RECURSIVE RoundTrip(_, _)
RoundTrip(chain, req) ==
    IF chain = <<>> THEN req
    ELSE RoundTrip(Tail(chain),
                   [req EXCEPT !.header =
                      HeaderAdd(@, "Authorization", chain[1])])

\* The Transport of s.client when a request is sent.
transportOf(s, shared) == IF s.client = "shared" THEN shared ELSE s.transport

NoWire == [by |-> 0, request |-> NoCall]

ConstructHttp == [err |-> FALSE, StatusCode |-> 200,
                  ContentType |-> "text/plain", Body |-> "oops"]

ConstructInit ==
    /\ server = TransportServer
    /\ input = <<>>
    /\ TransportInit
    /\ RouterIdle

Constructed(options, r) ==
    /\ opts' = options
    /\ built' = Append(built, [err |-> r.err, server |-> r.server])
    /\ client' = r.shared
    /\ UNCHANGED <<server, lastReq, lastResp, lastHttp, lastCall, history,
                   firstList, fresh, wire, braceCount>>
    /\ UNCHANGED tvars

\* A caller constructs one more server.
ConstructNewServer ==
    /\ Len(built) < MaxServers
    /\ \E options \in OptionLists :
         Constructed(options, NewServerOpts(options, client))

Sent(i, request, response, call) ==
    /\ lastReq' = request
    /\ lastResp' = response
    /\ lastHttp' = ConstructHttp
    /\ lastCall' = call
    /\ wire' = [by |-> i,
                request |-> IF call.made
                            THEN RoundTrip(transportOf(built[i].server,
                                                       client), call)
                            ELSE NoCall]
    /\ UNCHANGED <<server, history, firstList, fresh, client, opts, built,
                   braceCount>>
    /\ UNCHANGED tvars

SendBy(i, request) ==
    Sent(i, request, HandleRequest(built[i].server, request, ConstructHttp),
         clientRequest(built[i].server, request, ConstructHttp))

\* The params of the calls: a tool of the document, a name no tool has,
\* and params that do not decode.
ConstructParams == {CallWith("listPets", NoArgs), CallWith("nosuch", NoArgs),
                    BadParams}

\* tools/call on a server NewServer returned.
ConstructCall ==
    \E i \in 1..Len(built), params \in ConstructParams :
      /\ ~built[i].err
      /\ SendBy(i, NewRequest("tools/call", params, ID1))

ConstructNext == ConstructNewServer \/ ConstructCall

ConstructSpec == ConstructInit /\ [][ConstructNext]_vars

(***************************************************************************)
(* The reader goroutine of the revision of Transport.Run that frames its   *)
(* input by counting braces instead of by lines.  A byte of the stream is  *)
(* a brace, a double quote, a backslash, white space or another character. *)
(* The handler goroutine is taken to be waiting on lines whenever the      *)
(* reader sends; EAGAIN only makes the reader read again.                  *)
(***************************************************************************)
MaxBraceInput == 6  \* length of the stdin byte stream under BraceSpec

OPEN == "{"
CLOSE == "}"
QUOTE == "\""
BACKSLASH == "\\"
SPACE == " "
BraceAlphabet == {OPEN, CLOSE, QUOTE, BACKSLASH, SPACE, "x"}

BraceInputs == UNION {[1..n -> BraceAlphabet] : n \in 0..MaxBraceInput}

\* bytes.TrimLeft(buffer.Bytes(), " \t\n\r")
RECURSIVE TrimLeft(_)
TrimLeft(bytes) ==
    IF bytes # <<>> /\ Head(bytes) = SPACE THEN TrimLeft(Tail(bytes))
    ELSE bytes

\* The loop over scan from index i on, with the braceCount and inString
\* reached so far: the end it finds (-1 for none) and the braceCount it
\* leaves.
RECURSIVE scanFrom(_, _, _, _)
scanFrom(scan, i, count, inString) ==
    IF i > Len(scan) THEN [end |-> -1, braceCount |-> count]
    ELSE LET char == scan[i]
             str == IF char = QUOTE /\ (i = 1 \/ scan[i - 1] # BACKSLASH)
                    THEN ~inString ELSE inString
         IN IF str THEN scanFrom(scan, i + 1, count, str)
            ELSE IF char = OPEN THEN scanFrom(scan, i + 1, count + 1, str)
            ELSE IF char = CLOSE
                 THEN (IF count - 1 = 0
                       THEN [end |-> i, braceCount |-> 0]
                       ELSE scanFrom(scan, i + 1, count - 1, str))
            ELSE scanFrom(scan, i + 1, count, str)

scanBuffer(scan) == scanFrom(scan, 1, 0, FALSE)

\* Run has started its goroutines; the reader is about to read.
BraceInit ==
    /\ server = TransportServer
    /\ input \in BraceInputs
    /\ rpos = 0
    /\ line = <<>>
    /\ pc = [t \in Tasks |-> IF t = "reader" THEN "read" ELSE "recv"]
    /\ ret = [t \in Tasks |-> "-"]
    /\ signalled = FALSE
    /\ hline = <<>>
    /\ hresp = NoResponse
    /\ closed = FALSE
    /\ buf = <<>>
    /\ out = <<>>
    /\ handled = <<>>
    /\ wline = <<>>
    /\ written = <<>>
    /\ wfail = ""
    /\ taken = 0
    /\ RouterIdle

\* unix.Read returns n > 0 bytes, which are appended to the buffer.
BraceRead ==
    /\ pc["reader"] = "read"
    /\ rpos < Len(input)
    /\ \E n \in 1..(Len(input) - rpos) :
         /\ line' = line \o SubSeq(input, rpos + 1, rpos + n)
         /\ rpos' = rpos + n
    /\ Goto("reader", "scan")
    /\ UNCHANGED <<server, input, signalled, hline, hresp, buf, out, handled,
                   wline, written, wfail, taken>>
    /\ UNCHANGED rvars

\* The read returns io.EOF, or no byte and no error.
BraceEOF ==
    /\ pc["reader"] = "read"
    /\ rpos = Len(input)
    /\ Return("reader", "nil")
    /\ UNCHANGED <<server, input, rpos, line, signalled, hline, hresp, buf,
                   out, handled, wline, written, wfail, taken>>
    /\ UNCHANGED rvars

\* What one pass of 'for buffer.Len() > 0' leaves, trimmed being the buffer
\* without its leading white space and found the outcome of the scan.
Scanned(trimmed, found) ==
    IF trimmed = <<>>
    THEN /\ line' = <<>>
         /\ Goto("reader", "read")
         /\ UNCHANGED braceCount
    ELSE IF trimmed[1] # OPEN /\ braceCount = 0
    THEN /\ line' = trimmed
         /\ Goto("reader", "read")
         /\ UNCHANGED braceCount
    ELSE /\ line' = trimmed
         /\ braceCount' = found.braceCount
         /\ IF found.end # -1
            THEN Goto("reader", "send")
            ELSE Goto("reader", "read")

BraceScan ==
    /\ pc["reader"] = "scan"
    /\ Scanned(TrimLeft(line), scanBuffer(TrimLeft(line)))
    /\ UNCHANGED <<server, input, rpos, signalled, hline, hresp, buf, out,
                   handled, wline, written, wfail, taken>>
    /\ UNCHANGED <<lastReq, lastResp, lastHttp, lastCall, history,
                   firstList, fresh, client, opts, built, wire>>

\* lines <- string(buffer.Next(end)): the handler goroutine receives the
\* message, the reader goes on with the rest of the buffer.
BraceDeliver ==
    /\ pc["reader"] = "send"
    /\ handled' = Append(handled, SubSeq(line, 1, scanBuffer(line).end))
    /\ line' = SubSeq(line, scanBuffer(line).end + 1, Len(line))
    /\ Goto("reader", "scan")
    /\ UNCHANGED <<server, input, rpos, signalled, hline, hresp, buf, out,
                   wline, written, wfail, taken>>
    /\ UNCHANGED rvars

BraceNext == BraceRead \/ BraceEOF \/ BraceScan \/ BraceDeliver

BraceSpec == BraceInit /\ [][BraceNext]_vars

(***************************************************************************)
(* Properties of Transport.Run (Spec, FairSpec).                           *)
(***************************************************************************)
\* The responses that have reached stdout, complete or not, in order.
responsesOut == SelectSeq(out, LAMBDA u : u.byte = "json")

\* The line parses as a request that carries no id.
isNotification(l) ==
    unmarshalOK(l) /\ wireRequest(l[1]).id = AbsentJSON

\* The complete lines of a byte stream: the non-empty runs of content that
\* are followed by a terminator.
RECURSIVE linesFrom(_, _)
linesFrom(bytes, cur) ==
    IF bytes = <<>>
    THEN <<>>
    ELSE IF Head(bytes) \in {LF, CR}
         THEN (IF cur = <<>> THEN <<>> ELSE <<cur>>)
              \o linesFrom(Tail(bytes), <<>>)
         ELSE linesFrom(Tail(bytes), Append(cur, Head(bytes)))

LinesOf(bytes) == linesFrom(bytes, <<>>)

\* No goroutine of Run can take another step.
Halted == ~ENABLED TaskStep

\* C1: a line that parses as a request without an id never has a response
\* written to stdout for it.
C1_NoResponseToNotification ==
    \A k \in 1..Len(written) : ~isNotification(written[k])

\* C2: the k-th response written to stdout answers the k-th line the handler
\* processed: nothing is reordered, duplicated or made up.
C2_ResponsesInOrder ==
    /\ Len(responsesOut) <= Len(handled)
    /\ \A k \in 1..Len(responsesOut) :
         responsesOut[k].text
           = MarshalResponse(respond(server, handled[k], NoHttp))
    /\ Len(written) = Len(responsesOut)
    /\ \A k \in 1..Len(written) : written[k] = handled[k]

C2_Witness ==
    /\ Len(handled) = 2
    /\ handled[1] # handled[2]
    /\ Len(out) = 4
    /\ out[4].byte = LF

\* C3: once the reader has returned at the end of input, with no
\* cancellation and no failed write, the shutdown does not come to rest
\* before Run has returned.
C3_EOFShutdownCompletes ==
    (ret["reader"] = "nil" /\ ~ctxDone /\ wfail = "")
        => (RunReturned \/ ~Halted)

\* C4: after the cancellation signal has fired, Run eventually returns.
C4_CancelledRunReturns == signalled ~> RunReturned

C4_Witness ==
    /\ signalled
    /\ RunReturned
    /\ RunResult = "nil"
    /\ Len(handled) >= 1

\* C5: a line that fails JSON parsing is answered with a Parse-error
\* response and does not stop the transport: when Run comes to rest without
\* cancellation or failed write, every complete line of the input has been
\* handled and answered, in input order.
C5_BadLineDoesNotStop ==
    /\ \A k \in 1..Len(responsesOut) :
         ~unmarshalOK(handled[k])
           => /\ ~responsesOut[k].text.error.isNil
              /\ responsesOut[k].text.error.code = ErrParse
    /\ (Halted /\ ~ctxDone /\ wfail = ""
          /\ \E k \in 1..Len(LinesOf(input)) : ~unmarshalOK(LinesOf(input)[k]))
        => /\ handled = LinesOf(input)
           /\ written = handled
           /\ Len(out) = 2 * Len(handled)

C5_Witness ==
    /\ Len(handled) = 2
    /\ ~unmarshalOK(handled[1])
    /\ unmarshalOK(handled[2])
    /\ Len(out) = 4
    /\ out[3].text.error.isNil
    /\ Halted /\ ~ctxDone /\ wfail = ""

\* C6: the response written for a line that is not well-formed JSON has
\* error code -32700 and an id that serializes as JSON null.
C6_ParseErrorHasNullId ==
    \A k \in 1..Len(responsesOut) :
        ~unmarshalOK(written[k])
          => /\ responsesOut[k].text.error.code = ErrParse
             /\ responsesOut[k].text.id = NullJSON

\* C7: once a write to stdout has failed (error, io.EOF or zero bytes
\* accepted), the transport does not come to rest before Run has returned.
\* Stated for the states in which the handler is not waiting for a line, so
\* that the failed write alone decides it (the handler waiting for a line
\* after the end of input is the subject of C3).
C7_WriteFailureShutsDown ==
    (wfail # "" /\ pc["handler"] # "recv") => (RunReturned \/ ~Halted)

(***************************************************************************)
(* Properties of the router (RouterSpec).                                  *)
(***************************************************************************)
\* The slots of the server whose operation is projected to a tool.
listedSlots(s) ==
    {k \in 1..Len(operations(s)) : listed(opAt(s, operations(s)[k]))}

\* The slots of the server whose operation has an empty operationId.
unnamedSlots(s) ==
    {k \in 1..Len(operations(s)) :
        /\ ~opAt(s, operations(s)[k]).isNil
        /\ opAt(s, operations(s)[k]).OperationId = ""}

succeeded(resp) == resp.Error.isNil

\* The names of the tools the server lists.
toolNames(s) ==
    {handleToolsList(s).Tools[i].Name :
        i \in 1..Len(handleToolsList(s).Tools)}

\* C8: no two listed tools share a name, and a tools/call with the name of
\* the tool projected from an operation reaches that operation.
C8_ToolNamesBijective ==
    /\ (lastReq.Method = "tools/list" /\ succeeded(lastResp))
         => \A i, j \in 1..Len(lastResp.Result.Tools) :
                i # j => lastResp.Result.Tools[i].Name
                           # lastResp.Result.Tools[j].Name
    /\ (lastReq.Method = "tools/call" /\ succeeded(lastResp))
         => \A k \in listedSlots(server) :
                getToolName(opAt(server, operations(server)[k]).OperationId)
                    = lastReq.Params.Name
                => lastResp.Result.request
                     = [method |-> Methods[operations(server)[k].method],
                        url |-> server.baseURL
                                \o server.model[operations(server)[k].item].path]

RoutedMethods == {"initialize", "tools/list", "tools/call", "ping/ping"}

isMethodNotFound(req, resp) ==
    /\ ~resp.Error.isNil
    /\ resp.Error.code = -32601
    /\ resp.Error.message = "Method not found"
    /\ resp.Result = NoResult
    /\ resp.ID = req.ID

C10_UnnamedNeverExposed ==
    unnamedSlots(server) # {}
      => /\ (lastReq.Method = "tools/list" /\ succeeded(lastResp))
              => /\ Len(lastResp.Result.Tools)
                      = Cardinality(listedSlots(server))
                 /\ \A i \in 1..Len(lastResp.Result.Tools) :
                        lastResp.Result.Tools[i].Name # ""
         /\ (lastReq.Method = "tools/call" /\ succeeded(lastResp))
              => \A k \in unnamedSlots(server) :
                     lastResp.Result.request
                       # [method |-> Methods[operations(server)[k].method],
                          url |-> server.baseURL
                                  \o server.model[operations(server)[k].item].path]
         /\ (lastReq.Method = "tools/call" /\ lastReq.Params.json # "malformed"
               /\ lastReq.Params.Name = "")
              => isMethodNotFound(lastReq, lastResp)

C10_Witness ==
    /\ unnamedSlots(server) # {}
    /\ lastReq.Method = "tools/call"
    /\ lastReq.Params = ObjParams("")
    /\ isMethodNotFound(lastReq, lastResp)

(***************************************************************************)
(* Properties of the answers of tools/call to the upstream response        *)
(* (RouterSpec).                                                           *)
(***************************************************************************)
\* C11: when the upstream response has a status of 400 or more, whatever
\* its Content-Type, the tools/call is answered with error -32603 whose data
\* is a text Content stating the status and the body, and with no result.
C11_UpstreamErrorIsInternal ==
    (lastReq.Method = "tools/call" /\ lastCall.made /\ ~lastHttp.err
       /\ lastHttp.StatusCode >= 400)
      => /\ ~lastResp.Error.isNil
         /\ lastResp.Error.code = -32603
         /\ lastResp.Error.data.type = "text"
         /\ Contains(lastResp.Error.data.text, ToString(lastHttp.StatusCode))
         /\ Contains(lastResp.Error.data.text, lastHttp.Body)
         /\ lastResp.Result = NoResult

C11_Witness ==
    /\ lastReq.Method = "tools/call"
    /\ lastCall.made
    /\ lastHttp.StatusCode = 404
    /\ lastHttp.ContentType = "image/png"
    /\ lastResp.Error.code = -32603
    /\ lastResp.Error.data.text = "Request failed with status 404: oops"

(***************************************************************************)
(* Properties of the outbound request (CallSpec).  The request is read as  *)
(* the upstream server reads it: the path and the query are percent-decoded *)
(* once, header names are compared by their canonical form.                *)
(***************************************************************************)
Escapable ==
    {" ", "!", "#", "$", "%", "&", "'", "(", ")", "*", "+", ",", "/", ":",
     ";", "<", "=", ">", "?", "@", "[", "]", "^", "{", "|", "}"}

unhex(h) == CHOOSE c \in Escapable : hex(c) = h

RECURSIVE unescape(_, _)
\* Percent-decoding; in a query a '+' stands for a space.
unescape(str, query) ==
    IF str = "" THEN ""
    ELSE IF Char(str, 1) = "%" /\ Len(str) >= 3
    THEN unhex(SubSeq(str, 2, 3)) \o unescape(SubSeq(str, 4, Len(str)), query)
    ELSE (IF query /\ Char(str, 1) = "+" THEN " " ELSE Char(str, 1))
         \o unescape(SubSeq(str, 2, Len(str)), query)

\* The position of the first c in str, 0 when there is none.
indexOf(str, c) ==
    IF \E i \in 1..Len(str) : Char(str, i) = c
    THEN CHOOSE i \in 1..Len(str) :
           /\ Char(str, i) = c
           /\ \A j \in 1..(i - 1) : Char(str, j) # c
    ELSE 0

\* The URL of the request without its query, and its raw query.
urlWithoutQuery(url) ==
    IF indexOf(url, "?") = 0 THEN url
    ELSE SubSeq(url, 1, indexOf(url, "?") - 1)

rawQuery(url) ==
    IF indexOf(url, "?") = 0 THEN ""
    ELSE SubSeq(url, indexOf(url, "?") + 1, Len(url))

RECURSIVE split(_, _)
\* strings.Split on a one-byte separator
split(str, sep) ==
    IF indexOf(str, sep) = 0 THEN <<str>>
    ELSE <<SubSeq(str, 1, indexOf(str, sep) - 1)>>
         \o split(SubSeq(str, indexOf(str, sep) + 1, Len(str)), sep)

\* The decoded values the query of the URL has for the key.
queryValues(url, key) ==
    LET pairs == IF rawQuery(url) = "" THEN <<>>
                 ELSE split(rawQuery(url), "&")
    IN {unescape(SubSeq(pairs[i], indexOf(pairs[i], "=") + 1,
                        Len(pairs[i])), TRUE) :
          i \in {j \in 1..Len(pairs) :
                   unescape(SubSeq(pairs[j], 1,
                                   indexOf(pairs[j], "=") - 1), TRUE) = key}}

\* The decoded segment the URL has in the place of {petId}.
petIdSegment(url) ==
    unescape(SubSeq(urlWithoutQuery(url), Len("http://h/pets/") + 1,
                    Len(urlWithoutQuery(url))), FALSE)

headerValues(header, name) ==
    IF CanonicalMIMEHeaderKey(name) \in DOMAIN header
    THEN {header[CanonicalMIMEHeaderKey(name)][i] :
            i \in 1..Len(header[CanonicalMIMEHeaderKey(name)])}
    ELSE {}

\* The text of a string or number argument as the client wrote it.
textOf(v) == IF v.t = "number" THEN ToString(v.n) ELSE v.s

\* The operation CallSpec calls, and the parameters declared for it on the
\* path item and on the operation.
calledOperation == server.model[1].ops[1]

declaredParameters ==
    {server.model[1].Parameters[i] :
       i \in 1..Len(server.model[1].Parameters)}
    \cup {calledOperation.Parameters[i] :
            i \in 1..Len(calledOperation.Parameters)}

\* C12: for every declared parameter with in = path, query or header whose
\* name is an argument with a string or number value v, the outbound
\* request carries v there: as the segment in place of {name}, as the value
\* of the query parameter, or as a value of the header.
C12_ParametersBound ==
    lastCall.made
      => \A param \in declaredParameters :
           (/\ param.Name \in DOMAIN lastReq.Params.Arguments
            /\ lastReq.Params.Arguments[param.Name].t # "array")
             => LET v == lastReq.Params.Arguments[param.Name]
                IN /\ (param.In = "path" /\ param.Name = "petId")
                        => petIdSegment(lastCall.url) = textOf(v)
                   /\ param.In = "query"
                        => queryValues(lastCall.url, param.Name)
                             = {textOf(v)}
                   /\ param.In = "header"
                        => textOf(v) \in headerValues(lastCall.header,
                                                      param.Name)

\* C13: a string value of the path parameter is percent-encoded exactly
\* once: the outbound URL is the base URL, the path and the value with
\* every byte outside unreserved, sub-delims, ':' and '@' as one %XX
\* triplet, and decoding the segment once gives the value back.
C13_PathValueEscapedOnce ==
    (/\ lastCall.made
     /\ \E param \in declaredParameters :
          param.In = "path" /\ param.Name = "petId"
     /\ "petId" \in DOMAIN lastReq.Params.Arguments
     /\ lastReq.Params.Arguments["petId"].t = "string")
      => /\ urlWithoutQuery(lastCall.url)
              = "http://h/pets/"
                \o pathSegmentEscape(lastReq.Params.Arguments["petId"].s)
         /\ petIdSegment(lastCall.url) = lastReq.Params.Arguments["petId"].s

\* C14: when the operation declares a JSON request body, the outbound body
\* is the object of exactly those arguments that are declared properties of
\* its schema, and there is no body when none of them is supplied.
C14_BodyIsDeclaredArguments ==
    (lastCall.made /\ ~calledOperation.RequestBody.isNil)
      => LET declared == {calledOperation.RequestBody.Properties[i] :
                            i \in 1..Len(calledOperation.RequestBody.Properties)}
             supplied == declared \cap DOMAIN lastReq.Params.Arguments
         IN IF supplied = {}
            THEN ~lastCall.body.present
            ELSE /\ lastCall.body.present
                 /\ DOMAIN lastCall.body.object = supplied
                 /\ \A k \in supplied :
                      lastCall.body.object[k] = lastReq.Params.Arguments[k]

C14_Witness ==
    /\ lastCall.made
    /\ calledOperation.RequestBody = RequestBody(<<"fields">>)
    /\ DOMAIN lastReq.Params.Arguments = {"fields", "petId"}
    /\ lastCall.body.present
    /\ DOMAIN lastCall.body.object = {"fields"}

\* C15: an array argument of a declared query parameter, declared on the
\* path item or on the operation, is sent as the single query value made of
\* the texts of its elements joined by commas.
C15_ArrayQueryJoined ==
    lastCall.made
      => \A param \in declaredParameters :
           (/\ param.In = "query"
            /\ param.Name \in DOMAIN lastReq.Params.Arguments
            /\ lastReq.Params.Arguments[param.Name].t = "array")
             => LET a == lastReq.Params.Arguments[param.Name].a
                IN queryValues(lastCall.url, param.Name)
                     = {Join([i \in 1..Len(a) |-> textOf(a[i])], ",")}

(***************************************************************************)
(* Properties of the methods of the router (RouterSpec).                   *)
(***************************************************************************)
\* C16: a request with method ping, and one with method ping/ping, is
\* answered with the empty result {} and the id of the request.
C16_PingAnswered ==
    (lastReq.Method \in {"ping", "ping/ping"} /\ paramsDecode(lastReq))
      => /\ succeeded(lastResp)
         /\ lastResp.Result = [kind |-> "ping"]
         /\ lastResp.ID = lastReq.ID

C17_BadEnvelopeInvalidRequest ==
    \A k \in 1..Len(responsesOut) :
        written[k] \in {<<"A">>, <<"M">>}
          => /\ ~responsesOut[k].text.error.isNil
             /\ responsesOut[k].text.error.code = -32600

(***************************************************************************)
(* Properties of a session (SessionSpec).                                  *)
(***************************************************************************)
\* C19: initialize is answered at every point of a session, before, after
\* and without the initialized notification and when repeated, with
\* protocolVersion "2024-11-05", capabilities.tools.listChanged false and
\* the configured name and version of the server.
C19_InitializeAlwaysAccepted ==
    (lastReq.Method = "initialize" /\ paramsDecode(lastReq))
      => /\ succeeded(lastResp)
         /\ lastResp.ID = lastReq.ID
         /\ lastResp.Result.ProtocolVersion = "2024-11-05"
         /\ lastResp.Result.Capabilities.Tools.ListChanged = FALSE
         /\ lastResp.Result.ServerInfo = fresh.info

C19_Witness ==
    /\ Len(history) = 3
    /\ history[1].Method = "initialize"
    /\ history[2].Method = "notifications/initialized"
    /\ history[3].Method = "initialize"
    /\ history[3].ok
    /\ lastResp.Result.ServerInfo = [Name |-> "Test API", Version |-> "1.0.0"]

unusable(data) ==
    \/ data.len = 0
    \/ ~data.document
    \/ ~data.builds
    \/ data.Servers = <<>>
    \/ data.Servers[1] = ""

givenUnusableData ==
    \E i \in 1..Len(opts) :
      opts[i].opt = "WithSpecData" /\ unusable(opts[i].data)

\* C21: a call of NewServer one of whose WithSpecData options carries data
\* that is empty or malformed, or whose model has no servers entry or an
\* empty first server URL, returns an error and no server, so that no
\* request is ever served by it.
C21_UnusableSpecRejected ==
    /\ (built # <<>> /\ givenUnusableData)
         => /\ built[Len(built)].err
            /\ built[Len(built)].server = NoServer
    /\ wire.by # 0 => ~built[wire.by].err

\* NewServer was given a well-formed document whose first server URL is
\* empty, after a valid Authorization value, and returned an error.
C21_Witness ==
    /\ Len(built) = 1
    /\ opts = <<Option("WithAuth", EmptyData, "Bearer a"),
                Option("WithSpecData", ValidData(<<"">>), "")>>
    /\ built[1].err

(***************************************************************************)
(* Properties of the tool names (RouterSpec).                              *)
(***************************************************************************)
\* The operationIds of the operations the server lists, in the order of
\* the tools.
listedIds(s) ==
    LET sel == SelectSeq(operations(s), LAMBDA sl : listed(opAt(s, sl)))
    IN [k \in 1..Len(sel) |-> opAt(s, sel[k]).OperationId]

\* The first 8 characters of the URL-safe base64 text of the SHA-256 of the
\* two operationIds of the model that are longer than 64 bytes.
shortHash(operationId) ==
    CASE operationId = Long65 -> "Y1NhxIu5"
      [] operationId = Long66 -> "rBN_zkmD"

\* C22: every tool of tools/list has a name of at most 64 bytes: the
\* operationId itself when it has at most 64 bytes, otherwise its first 55
\* bytes, "_" and the 8 characters of the hash, 64 bytes in all; a second
\* evaluation gives the same name.
C22_ToolNameBounded ==
    (lastReq.Method = "tools/list" /\ succeeded(lastResp))
      => /\ Len(lastResp.Result.Tools) = Len(listedIds(server))
         /\ \A i \in 1..Len(lastResp.Result.Tools) :
              LET name == lastResp.Result.Tools[i].Name
                  id == listedIds(server)[i]
              IN /\ Len(name) <= 64
                 /\ Len(id) <= 64 => name = id
                 /\ Len(id) > 64
                      => /\ Len(name) = 64
                         /\ SubSeq(name, 1, 55) = SubSeq(id, 1, 55)
                         /\ SubSeq(name, 56, 56) = "_"
                         /\ SubSeq(name, 57, 64) = shortHash(id)
                 /\ name = handleToolsList(server).Tools[i].Name

\* tools/list on a server with operations of 64 and of 66 bytes.
C22_Witness ==
    /\ lastReq.Method = "tools/list"
    /\ succeeded(lastResp)
    /\ \E i, j \in 1..Len(lastResp.Result.Tools) :
         /\ listedIds(server)[i] = Long66
         /\ Len(lastResp.Result.Tools[i].Name) = 64
         /\ listedIds(server)[j] = Short64
         /\ lastResp.Result.Tools[j].Name = Short64

(***************************************************************************)
(* Properties of Transport.Run under cancellation (Spec).                  *)
(***************************************************************************)
\* The positions at which a goroutine waits in a select that has a
\* case <-ctx.Done(), and those at which a call of the operating system is
\* under way.
selects == {"read", "send", "recv", "write"}
systemCalls == {"setup", "reading", "writing"}

\* The step hands a line or a response from one goroutine to the next.
handoff ==
    \/ /\ pc["reader"] = "send" /\ pc["handler"] = "recv"
       /\ pc'["reader"] = "read" /\ pc'["handler"] = "call"
    \/ /\ pc["handler"] = "send" /\ pc["writer"] = "recv"
       /\ pc'["handler"] = "recv" /\ pc'["writer"] = "write"

\* C23 as stated: once the signal has fired, every goroutine that returns
\* returns nil, whatever it was doing.
C23_CancelledTasksReturnNil ==
    [][\A t \in Tasks :
         (signalled /\ pc[t] # "done" /\ pc'[t] = "done")
           => ret'[t] = "nil"]_vars

\* C23: once the signal has fired, a goroutine that waits in a select
\* leaves it by returning nil, or by a channel operation whose other side
\* was waiting as well; a goroutine returns an error only from a descriptor
\* setup, a read or a write that was under way and failed.
C23_CancelledSelectReturnsNil ==
    [][\A t \in Tasks :
         /\ (signalled /\ pc[t] \in selects /\ pc'[t] # pc[t])
              => \/ pc'[t] = "done" /\ ret'[t] = "nil"
                 \/ handoff
         /\ (ret[t] # "err" /\ ret'[t] = "err") => pc[t] \in systemCalls]_vars

\* Run has returned nil after the signal, the writer having left a response
\* without its line terminator on stdout.
C23_Witness ==
    /\ signalled
    /\ RunReturned
    /\ RunResult = "nil"
    /\ Len(buf) = 1
    /\ Len(out) = 1
    /\ out[1].byte = "json"

(***************************************************************************)
(* Properties of the writer and the handler goroutines (Spec).             *)
(***************************************************************************)
\* The bytes of the response lines of the given input lines, one after the
\* other.
RECURSIVE responseLines(_)
responseLines(ls) ==
    IF ls = <<>> THEN <<>>
    ELSE encode(respond(server, Head(ls), NoHttp)) \o responseLines(Tail(ls))

\* C24: stdout followed by what the writer still holds is the response
\* lines of the lines whose response the writer has received, in order and
\* entire; the writer holds nothing when it waits for the next response, so
\* stdout is complete response lines followed by at most a prefix of the
\* line being written.
C24_WriterFlushesWholeLine ==
    /\ taken <= Len(handled)
    /\ out \o buf = responseLines(SubSeq(handled, 1, taken))
    /\ pc["writer"] \in {"setup", "recv"} => buf = <<>>
    /\ buf # <<>> => Len(buf) <= Len(encode(NoResponse))

\* The second response has been written up to its line terminator, and the
\* writer sleeps after EAGAIN before it writes the rest.
C24_Witness ==
    /\ pc["writer"] = "sleep"
    /\ taken = 2
    /\ Len(out) = 3
    /\ Len(buf) = 1
    /\ ~ctxDone

\* C25: the handler goroutine calls the handler for one line at a time: when
\* it is about to call it, and at the call itself, the response of every
\* line handled before has been received by the writer; never more than
\* one handled line awaits that.
C25_HandlingIsSerial ==
    [][/\ taken <= Len(handled)
       /\ Len(handled) <= taken + 1
       /\ pc["handler"] = "call" => taken = Len(handled)
       /\ pc["handler"] = "send" => Len(handled) = taken + 1
       /\ handled' # handled
            => /\ pc["handler"] = "call"
               /\ taken = Len(handled)
               /\ Len(handled') = Len(handled) + 1]_vars

\* The handler is about to be called for a second line while the writer
\* still holds the whole response of the first.
C25_Witness ==
    /\ pc["handler"] = "call"
    /\ hline # <<>>
    /\ Len(handled) = 1
    /\ taken = 1
    /\ Len(buf) = 2

(***************************************************************************)
(* Properties of the framing of lines (Spec).                              *)
(***************************************************************************)
\* The lines the reader has handed to the handler goroutine so far.
delivered ==
    handled \o (IF pc["handler"] = "call" /\ hline # <<>>
                THEN <<hline>> ELSE <<>>)

\* C28: the lines handed to the handler are the non-empty runs of content
\* of the bytes read so far that a \n or \r has ended, in order, the last of
\* them possibly still with the reader (a cancelled run may stop short of
\* them); none is empty.  At the end of input the reader returns nil, and
\* the content after the last terminator is never handled nor answered.
C28_LineNeedsTerminator ==
    /\ \A k \in 1..Len(delivered) : delivered[k] # <<>>
    /\ Len(delivered) <= Len(LinesOf(SubSeq(input, 1, rpos)))
    /\ delivered = SubSeq(LinesOf(SubSeq(input, 1, rpos)), 1, Len(delivered))
    /\ ~ctxDone
         => \/ delivered = LinesOf(SubSeq(input, 1, rpos))
            \/ /\ pc["reader"] = "send"
               /\ Append(delivered, line)
                    = LinesOf(SubSeq(input, 1, rpos))
    /\ Len(responsesOut) <= Len(LinesOf(input))
    /\ (rpos = Len(input) /\ pc["reader"] = "done" /\ ~ctxDone)
         => ret["reader"] = "nil"

\* The input ends in content without a terminator after two consecutive
\* terminators; the reader has returned at the end of input and the one
\* complete line has been handled.
C28_Witness ==
    /\ Len(input) = 4
    /\ input[2] = LF /\ input[3] = CR
    /\ input[1] \notin {LF, CR} /\ input[4] \notin {LF, CR}
    /\ rpos = 4
    /\ pc["reader"] = "done" /\ ret["reader"] = "nil"
    /\ handled = <<<<input[1]>>>>
    /\ ~ctxDone

(***************************************************************************)
(* Properties of the brace-counting reader (BraceSpec).                    *)
(***************************************************************************)
\* The JSON reading of the text from index i on, inside an object opened
\* depth times: within a string a backslash escapes the byte after it, and
\* the string ends at the next quote that is not escaped.  The index of the
\* brace that closes the object, 0 when the text ends before it.
RECURSIVE closingBrace(_, _, _, _, _)
closingBrace(bytes, i, depth, inString, escaped) ==
    IF i > Len(bytes) THEN 0
    ELSE IF inString
         THEN (IF escaped THEN closingBrace(bytes, i + 1, depth, TRUE, FALSE)
               ELSE IF bytes[i] = BACKSLASH
                    THEN closingBrace(bytes, i + 1, depth, TRUE, TRUE)
               ELSE closingBrace(bytes, i + 1, depth, bytes[i] # QUOTE,
                                 FALSE))
    ELSE IF bytes[i] = QUOTE
         THEN closingBrace(bytes, i + 1, depth, TRUE, FALSE)
    ELSE IF bytes[i] = OPEN
         THEN closingBrace(bytes, i + 1, depth + 1, FALSE, FALSE)
    ELSE IF bytes[i] = CLOSE
         THEN (IF depth = 1 THEN i
               ELSE closingBrace(bytes, i + 1, depth - 1, FALSE, FALSE))
    ELSE closingBrace(bytes, i + 1, depth, FALSE, FALSE)

\* The objects of a text made of complete top-level objects and white
\* space only; ok is FALSE for any other text.
RECURSIVE objectsOf(_)
objectsOf(bytes) ==
    LET t == TrimLeft(bytes)
        end == closingBrace(t, 1, 0, FALSE, FALSE)
    IN IF t = <<>> THEN [ok |-> TRUE, objects |-> <<>>]
       ELSE IF t[1] # OPEN \/ end = 0 THEN [ok |-> FALSE, objects |-> <<>>]
       ELSE LET rest == objectsOf(SubSeq(t, end + 1, Len(t)))
            IN [ok |-> rest.ok,
                objects |-> <<SubSeq(t, 1, end)>> \o rest.objects]

\* The input from its first opening brace on, and what precedes it.
firstOpen ==
    IF \E i \in 1..Len(input) : input[i] = OPEN
    THEN CHOOSE i \in 1..Len(input) :
           input[i] = OPEN /\ \A j \in 1..(i - 1) : input[j] # OPEN
    ELSE Len(input) + 1

fromFirstOpen == SubSeq(input, firstOpen, Len(input))

\* What precedes the first object is not the start of an object and holds
\* no quote or backslash; what follows is complete objects and white space.
objectsAfterOtherText ==
    /\ \A j \in 1..(firstOpen - 1) : input[j] \in {SPACE, CLOSE, "x"}
    /\ objectsOf(fromFirstOpen).ok

\* C30: whatever the reads the input arrives in, the reader sends the
\* complete top-level objects of the input to the handler once each and in
\* input order, all of them by the time it has read the whole input; text
\* before the first object that does not start with '{' does not prevent
\* it.
C30_EveryObjectDelivered ==
    objectsAfterOtherText
      => /\ Len(handled) <= Len(objectsOf(fromFirstOpen).objects)
         /\ handled = SubSeq(objectsOf(fromFirstOpen).objects, 1,
                             Len(handled))
         /\ pc["reader"] = "done"
              => handled = objectsOf(fromFirstOpen).objects

\* ---------------------------------------------------------------------
\* Authorization on the wire
\* ---------------------------------------------------------------------

\* The values of the Authorization header of the request as the base
\* transport receives it.
authorizationOnWire ==
    IF "Authorization" \in DOMAIN wire.request.header
    THEN wire.request.header["Authorization"]
    ELSE <<>>

\* C29: every outbound request of a server constructed with WithAuth(a)
\* carries exactly one Authorization value, a, also when the same client
\* was given through WithClient to more than one NewServer call.
C29_OneAuthorization ==
    (wire.request.made /\ built[wire.by].server.auth # "")
      => authorizationOnWire = <<built[wire.by].server.auth>>

\* ---------------------------------------------------------------------
\* Calls of the HTTP client
\* ---------------------------------------------------------------------

\* The server the last request of ConstructSpec was sent to.
calledServer == built[wire.by].server

\* The response tells that the call was turned down before s.client.Do:
\* the params did not decode, no tool has the name, or the base URL did
\* not parse.
rejectedBeforeDispatch ==
    /\ ~lastResp.Error.isNil
    /\ \/ lastResp.Error.code = ErrInvalidParams
       \/ lastResp.Error.code = ErrMethodNotFound
       \/ lastResp.Error.data = ErrData("url.Parse")

declaredTwice ==
    /\ server.model[1].Parameters # <<>>
    /\ calledOperation.Parameters # <<>>

itemParameter == server.model[1].Parameters[1]
operationParameter == calledOperation.Parameters[1]

\* The places of the outbound request that carry a value for petId.
boundInPath == petIdSegment(lastCall.url) # "{petId}"
boundInQuery == queryValues(lastCall.url, "petId") # {}
boundInHeader == "Petid" \in DOMAIN lastCall.header

\* The value is at the place the parameter names and, in a header, is its
\* only value.
boundOnceAt(param) ==
    /\ boundInPath <=> param.In = "path"
    /\ boundInQuery <=> param.In = "query"
    /\ boundInHeader <=> param.In = "header"
    /\ boundInHeader => Len(lastCall.header["Petid"]) = 1

\* The number of entries of Required that are petId.
requiredEntries(tool) ==
    Cardinality({i \in 1..Len(tool.InputSchema.Required) :
                   tool.InputSchema.Required[i] = "petId"})

\* C26: when the path item and the operation declare a parameter of the
\* same name, the inputSchema of the tool has at most one required entry
\* for the name, and a call binds the argument once, at the location of the
\* operation-level parameter only.
C26_OperationLevelWins ==
    declaredTwice
      => /\ (lastReq.Method = "tools/list" /\ lastResp.Error.isNil)
              => requiredEntries(lastResp.Result.Tools[1]) <= 1
         /\ lastCall.made => boundOnceAt(operationParameter)

====
